---- MODULE Spec2Model ----
(***************************************************************************)
(* A model of jungfrau_utils.data_handler.JFDataHandler: the handler's     *)
(* fields, its setters, and process with the correction kernel.            *)
(*                                                                         *)
(* Arrays are immutable values: a record of a name, a dtype and a shape,   *)
(* whose elements are given by an operator over indices.  process is       *)
(* executed on the sampled pixels ProbePix of every module, and its result *)
(* is observed at the output coordinates Obs (the places the sampled       *)
(* pixels of the observed blocks go to, and the chip gaps between them).   *)
(***************************************************************************)
EXTENDS Integers, Sequences, FiniteSets, TLC

VARIABLES
    detector_name,        \* self._detector_name, as [id, n_modules, version]
    _gain,                \* self._gain
    _pedestal,            \* self._pedestal
    _pixel_mask,          \* self._pixel_mask
    _highgain,            \* self._highgain
    _g_all,               \* self._g_all, [BOOLEAN -> view or None]
    _p_all,               \* self._p_all
    _module_map,          \* self._module_map, a sequence (1-based here)
    _mask_all,            \* self._mask_all
    _mask_double_pixels,  \* self._mask_double_pixels
    _gain_file,           \* self._gain_file
    _pedestal_file,       \* self._pedestal_file
    call,                 \* the last completed operation and its arguments
    ret,                  \* what it returned or raised
    proc,                 \* a process call that is inside the loop of _process
    calib                 \* a corrections.JungfrauCalibration object, or None

vars == <<detector_name, _gain, _pedestal, _pixel_mask, _highgain, _g_all, _p_all,
          _module_map, _mask_all, _mask_double_pixels, _gain_file, _pedestal_file,
          call, ret, proc, calib>>

handler == <<detector_name, _gain, _pedestal, _pixel_mask, _highgain, _g_all, _p_all,
             _module_map, _mask_all, _mask_double_pixels, _gain_file, _pedestal_file>>

\* Python's None
None == [none |-> TRUE]

---------------------------------------------------------------------------
(* Module constants, data_handler.py:12-27 *)

CHIP_SIZE_X == 256
CHIP_SIZE_Y == 256
CHIP_NUM_X == 4
CHIP_NUM_Y == 2
MODULE_SIZE_X == CHIP_NUM_X * CHIP_SIZE_X
MODULE_SIZE_Y == CHIP_NUM_Y * CHIP_SIZE_Y
CHIP_GAP_X == 2
CHIP_GAP_Y == 2
STRIPSEL_SIZE_X == 1024 * 3 + 18
STRIPSEL_SIZE_Y == 86

---------------------------------------------------------------------------
(* Bounds of the model *)

\* frames in the stacks given to process
MaxFrames == 1
\* the blocks 0 .. ObservedBlocks-1 and the last one are observed in the output
ObservedBlocks == 3

---------------------------------------------------------------------------
(* float32.  A finite float is <<m, e>>, the number m * 2^e, with m odd   *)
(* or <<0, 0>>.  Products are taken in 12-bit limbs to stay inside TLC's   *)
(* 32-bit integers.                                                        *)

Pow2(k) == 2 ^ k

RECURSIVE BitLen(_)
BitLen(n) == IF n = 0 THEN 0 ELSE 1 + BitLen(n \div 2)

RECURSIVE Norm(_, _)
Norm(m, e) == IF m = 0 THEN <<0, 0>>
              ELSE IF m % 2 = 0 THEN Norm(m \div 2, e + 1)
              ELSE <<m, e>>

FromInt(n) == Norm(n, 0)

\* round-half-to-even of q + r / d to an integer
RoundEven(q, r, d) == IF 2 * r > d \/ (2 * r = d /\ q % 2 = 1) THEN q + 1 ELSE q

\* np.float32(1) / np.float32(g) for an integer 1 <= g < 128
Inv32(g) == LET k == 23 + BitLen(g - 1)
                q == Pow2(k) \div g
                r == Pow2(k) % g
            IN  Norm(RoundEven(q, r, g), -k)

\* float32(a * (m * 2^e)) for integers 0 <= a < 2^15, 0 <= m < 2^24: the exact
\* product (a float64 holds it), rounded once to 24 bits on the store.
MulAbs32(a, m, e) ==
    LET mh == m \div 4096
        ml == m % 4096
        lo == a * ml
        hi == a * mh + lo \div 4096
        B  == lo % 4096
        n  == IF hi = 0 THEN BitLen(B) ELSE BitLen(hi) + 12
        s  == n - 24
    IN  IF s <= 0 THEN Norm(hi * 4096 + B, e)
        ELSE IF s >= 12
             THEN Norm(RoundEven(hi \div Pow2(s - 12),
                                 (hi % Pow2(s - 12)) * 4096 + B, Pow2(s)), e + s)
             ELSE Norm(RoundEven(hi * Pow2(12 - s) + B \div Pow2(s),
                                 B % Pow2(s), Pow2(s)), e + s)

Neg32(v) == <<-v[1], v[2]>>

\* float32(d * g) for an integer d and a float g >= 0
Mul32(d, g) == IF d < 0 THEN Neg32(MulAbs32(-d, g[1], g[2])) ELSE MulAbs32(d, g[1], g[2])

---------------------------------------------------------------------------
(* Detectors.  A name JF<id>T<nmod>V<version> is the record of its three   *)
(* numbers, which is what JFDataHandler.detector parses out of it.         *)

Det(id, n, v) == [id |-> id, n_modules |-> n, version |-> v]

JF03T01V01 == Det(3, 1, 1)
JF06T32V01 == Det(6, 32, 1)
JF07T32V01 == Det(7, 32, 1)
JF02T09V01 == Det(2, 9, 1)
JF02T09V02 == Det(2, 9, 2)
JF02T01V02 == Det(2, 1, 2)

\* geometry.modules_orig: name -> (origins y, origins x)
modules_orig_keys == {JF03T01V01, JF06T32V01, JF07T32V01}

modules_orig ==
    [d \in modules_orig_keys |->
        CASE d = JF03T01V01 -> << <<0>>, <<0>> >>
          [] d = JF06T32V01 ->
               << << 68, 0, 618, 618, 550, 550, 1168, 1168,
                     1100, 1100, 1718, 1718, 1650, 1650, 2268, 2268,
                     2200, 2200, 2818, 2818, 2750, 2750, 3368, 3368,
                     3300, 3300, 3918, 3918, 3850, 3850, 4468, 4400 >>,
                  << 972, 2011, 0, 1039, 2078, 3117, 0, 1039,
                     2078, 3117, 0, 1039, 2078, 3117, 66, 1106,
                     2145, 3184, 66, 1106, 2145, 3184, 66, 1106,
                     2145, 3184, 66, 1106, 2145, 3184, 1106, 2145 >> >>
          [] d = JF07T32V01 ->
               << << 0, 0, 68, 68, 550, 550, 618, 618,
                     1100, 1100, 1168, 1168, 1650, 1650, 1718, 1718,
                     2200, 2200, 2268, 2268, 2750, 2750, 2818, 2818,
                     3300, 3300, 3368, 3368, 3850, 3850, 3918, 3918 >>,
                  << 68, 1107, 2146, 3185, 68, 1107, 2146, 3185,
                     68, 1107, 2146, 3185, 68, 1107, 2146, 3185,
                     0, 1039, 2078, 3117, 0, 1039, 2078, 3117,
                     0, 1039, 2078, 3117, 0, 1039, 2078, 3117 >> >>]

---------------------------------------------------------------------------
(* Arrays.  An array is [name, dtype, shape]; ArrAt gives its elements.    *)
(* The named arrays are the inputs the model draws from.                   *)

Arr(name, dtype, shape) == [name |-> name, dtype |-> dtype, shape |-> shape]

ndim(a) == Len(a.shape)

\* the raw 16-bit words the images are made of
RawVals == <<320, 49152, 49151, 17384, 32845, 0, 16383, 65535, 5, 16389>>

\* the gain tables GA and GB, and the pedestal tables PA and PB: they differ from
\* stage to stage, from module to module and across a module
GainVal(name, k, y, x) ==
    10 + 2 * k + ((y \div MODULE_SIZE_Y) % 3) + (IF x >= 512 THEN 1 ELSE 0)
       + (IF name = "GB" THEN 1 ELSE 0)

PedVal(name, k, y, x) ==
    5 + 100 * k + ((y \div MODULE_SIZE_Y) % 7) + (x % 5) + (IF name = "PB" THEN 3 ELSE 0)

\* the one pixel a mask marks in a detector of n modules: M1 a chip corner of
\* module 2, or of module 0 when there is no module 2, and ML the last pixel of
\* the last module; the mask M0 marks none
MaskPix(name, n) ==
    IF name = "ML" THEN <<(n - 1) * MODULE_SIZE_Y + 511, 1023>>
    ELSE IF n > 2 THEN <<2 * MODULE_SIZE_Y + 255, 255>> ELSE <<255, 255>>

MaskVal(name, n, y, x) ==
    IF name \in {"M1", "ML"} /\ <<y, x>> = MaskPix(name, n) THEN 1 ELSE 0

ImgVal(name, f, y, x) ==
    RawVals[(((y \div CHIP_SIZE_Y) + 2 * (x \div CHIP_SIZE_X) + 5 * f
              + (IF name = "I1" THEN 0 ELSE 1)) % Len(RawVals)) + 1]

\* a[idx]: idx is <<k, y, x>> for a table, <<y, x>> for a mask, <<f, y, x>> for images;
\* the array get_pixel_mask builds holds its elements in data, at <<y, x>>
ArrAt(a, idx) ==
    CASE a.name \in {"GA", "GB"} -> GainVal(a.name, idx[1], idx[2], idx[3])
      [] a.name \in {"PA", "PB"} -> PedVal(a.name, idx[1], idx[2], idx[3])
      [] a.name \in {"M0", "M1", "ML"} -> MaskVal(a.name, a.shape[1] \div MODULE_SIZE_Y, idx[1], idx[2])
      [] a.name \in {"I1", "I2"} -> ImgVal(a.name, idx[1], idx[2], idx[3])
      [] a.name = "pm" -> a.data[<<idx[Len(idx) - 1], idx[Len(idx)]>>]

\* value.astype(dtype): the same elements under another dtype
astype(a, dtype) == [a EXCEPT !.dtype = dtype]

(* Derived tables.  1 / gain, a copy, a slice of planes and the overwrite  *)
(* of one plane by another give a view [base, planes, inv]: plane k of the *)
(* view is plane planes[k+1] of base, inverted when inv.                   *)

Inverse(a) == [base |-> a, planes |-> [k \in 1..a.shape[1] |-> k - 1], inv |-> TRUE]

Copy(a) == [base |-> a, planes |-> [k \in 1..a.shape[1] |-> k - 1], inv |-> FALSE]

\* v[from:]
PlanesFrom(v, from) == [v EXCEPT !.planes = SubSeq(v.planes, from + 1, Len(v.planes))]

\* v[dst] = v[src]
SetPlane(v, dst, src) == [v EXCEPT !.planes[dst + 1] = v.planes[src + 1]]

\* view[k, y, x], a float32
ViewAt(v, k, y, x) ==
    LET raw == ArrAt(v.base, <<v.planes[k + 1], y, x>>)
    IN  IF v.inv THEN Inv32(raw) ELSE FromInt(raw)

---------------------------------------------------------------------------
(* Properties of the handler *)

modules_orig_y == modules_orig[detector_name][1]

modules_orig_x == modules_orig[detector_name][2]

\* np.max, np.min of a sequence
SeqMax(s) == LET R == {s[k] : k \in DOMAIN s} IN CHOOSE v \in R : \A w \in R : w <= v

SeqMin(s) == LET R == {s[k] : k \in DOMAIN s} IN CHOOSE v \in R : \A w \in R : v <= w

is_stripsel == detector_name.id \in {5, 10, 11, 12}

_get_shape_n_modules(n) ==
    IF detector_name = JF02T09V01
    THEN <<MODULE_SIZE_Y, MODULE_SIZE_X * n>>
    ELSE <<MODULE_SIZE_Y * n, MODULE_SIZE_X>>

\* _number_active_modules counting every entry of the module map
_number_active_modules_all == Len(_module_map)

\* np.sum(module_map != -1)
CountActive(module_map) == Cardinality({i \in DOMAIN module_map : module_map[i] # -1})

_number_active_modules == CountActive(_module_map)

_shape_full == _get_shape_n_modules(detector_name.n_modules)

\* _shape_in taking every entry of the module map
_shape_in_full == _get_shape_n_modules(Len(_module_map))

_shape_in == _get_shape_n_modules(_number_active_modules)

\* the pixels of a module the kernel is run on: chip corners and interior pixels
ProbePix == {<<0, 0>>, <<255, 255>>, <<256, 768>>, <<511, 1023>>, <<100, 300>>, <<411, 723>>}

get_dtype_out_raises(dtype_in, conversion) == conversion /\ dtype_in # "uint16"

get_dtype_out(dtype_in, conversion) == IF conversion THEN "float32" ELSE dtype_in

_get_stripsel_shape_out(geometry) ==
    IF geometry
    THEN <<SeqMax(modules_orig_y) + STRIPSEL_SIZE_Y, SeqMax(modules_orig_x) + STRIPSEL_SIZE_X>>
    ELSE _shape_in

\* get_shape_out giving the shape of the whole detector when both flags are false
get_shape_out_full(gap_pixels, geometry) ==
    IF geometry /\ gap_pixels
    THEN <<SeqMax(modules_orig_y) + MODULE_SIZE_Y + (CHIP_NUM_Y - 1) * CHIP_GAP_Y,
           SeqMax(modules_orig_x) + MODULE_SIZE_X + (CHIP_NUM_X - 1) * CHIP_GAP_X>>
    ELSE IF geometry /\ ~gap_pixels
    THEN <<SeqMax(modules_orig_y) + MODULE_SIZE_Y, SeqMax(modules_orig_x) + MODULE_SIZE_X>>
    ELSE IF ~geometry /\ gap_pixels
    THEN <<_shape_in[1] + (CHIP_NUM_Y - 1) * CHIP_GAP_Y * _number_active_modules,
           _shape_in[2] + (CHIP_NUM_X - 1) * CHIP_GAP_X>>
    ELSE _shape_full

\* get_shape_out adding the gaps of one module when gap_pixels only
get_shape_out_one_gap(gap_pixels, geometry) ==
    IF geometry /\ gap_pixels
    THEN <<SeqMax(modules_orig_y) + MODULE_SIZE_Y + (CHIP_NUM_Y - 1) * CHIP_GAP_Y,
           SeqMax(modules_orig_x) + MODULE_SIZE_X + (CHIP_NUM_X - 1) * CHIP_GAP_X>>
    ELSE IF geometry /\ ~gap_pixels
    THEN <<SeqMax(modules_orig_y) + MODULE_SIZE_Y, SeqMax(modules_orig_x) + MODULE_SIZE_X>>
    ELSE IF ~geometry /\ gap_pixels
    THEN <<_shape_in[1] + (CHIP_NUM_Y - 1) * CHIP_GAP_Y,
           _shape_in[2] + (CHIP_NUM_X - 1) * CHIP_GAP_X>>
    ELSE _shape_in

\* get_shape_out on what its reads of self._shape_in and of
\* self._number_active_modules have given
get_shape_out_reads(shape_in, number_active_modules, gap_pixels, geometry) ==
    IF is_stripsel
    THEN (IF geometry
          THEN <<SeqMax(modules_orig_y) + STRIPSEL_SIZE_Y,
                 SeqMax(modules_orig_x) + STRIPSEL_SIZE_X>>
          ELSE shape_in)
    ELSE IF geometry /\ gap_pixels
    THEN <<SeqMax(modules_orig_y) + MODULE_SIZE_Y + (CHIP_NUM_Y - 1) * CHIP_GAP_Y,
           SeqMax(modules_orig_x) + MODULE_SIZE_X + (CHIP_NUM_X - 1) * CHIP_GAP_X>>
    ELSE IF geometry /\ ~gap_pixels
    THEN <<SeqMax(modules_orig_y) + MODULE_SIZE_Y, SeqMax(modules_orig_x) + MODULE_SIZE_X>>
    ELSE IF ~geometry /\ gap_pixels
    THEN IF detector_name = JF02T09V01
         THEN <<shape_in[1] + (CHIP_NUM_Y - 1) * CHIP_GAP_Y,
                shape_in[2] + (CHIP_NUM_X - 1) * CHIP_GAP_X * number_active_modules>>
         ELSE <<shape_in[1] + (CHIP_NUM_Y - 1) * CHIP_GAP_Y * number_active_modules,
                shape_in[2] + (CHIP_NUM_X - 1) * CHIP_GAP_X>>
    ELSE shape_in

get_shape_out(gap_pixels, geometry) ==
    IF is_stripsel THEN _get_stripsel_shape_out(geometry)
    ELSE IF geometry /\ gap_pixels
    THEN <<SeqMax(modules_orig_y) + MODULE_SIZE_Y + (CHIP_NUM_Y - 1) * CHIP_GAP_Y,
           SeqMax(modules_orig_x) + MODULE_SIZE_X + (CHIP_NUM_X - 1) * CHIP_GAP_X>>
    ELSE IF geometry /\ ~gap_pixels
    THEN <<SeqMax(modules_orig_y) + MODULE_SIZE_Y, SeqMax(modules_orig_x) + MODULE_SIZE_X>>
    ELSE IF ~geometry /\ gap_pixels
    THEN IF detector_name = JF02T09V01
         THEN <<_shape_in[1] + (CHIP_NUM_Y - 1) * CHIP_GAP_Y,
                _shape_in[2] + (CHIP_NUM_X - 1) * CHIP_GAP_X * _number_active_modules>>
         ELSE <<_shape_in[1] + (CHIP_NUM_Y - 1) * CHIP_GAP_Y * _number_active_modules,
                _shape_in[2] + (CHIP_NUM_X - 1) * CHIP_GAP_X>>
    ELSE _shape_in

\* _g that does not follow the highgain flag
_g_normal == _g_all[FALSE]

_g == _g_all[_highgain]

_p == _p_all[_highgain]

_mask == _mask_all[_mask_double_pixels]

\* can_convert asking for the derived tables
can_convert_derived == (_g # None) /\ (_p # None)

can_convert == (_gain # None) /\ (_pedestal # None)

\* (oy, ox) of logical module i read from slot m
_get_final_module_coordinates(m, i, geometry, gap_pixels) ==
    IF geometry THEN <<modules_orig_y[i + 1], modules_orig_x[i + 1]>>
    ELSE IF gap_pixels
    THEN IF detector_name = JF02T09V01
         THEN <<0, m * (MODULE_SIZE_X + (CHIP_NUM_X - 1) * CHIP_GAP_X)>>
         ELSE <<m * (MODULE_SIZE_Y + (CHIP_NUM_Y - 1) * CHIP_GAP_Y), 0>>
    ELSE IF detector_name = JF02T09V01
         THEN <<0, m * MODULE_SIZE_X>>
         ELSE <<m * MODULE_SIZE_Y, 0>>

Min(a, b) == IF a < b THEN a ELSE b

(* data[:, m*512:(m+1)*512, :] (or the columns, for JF02T09V01) of an array *)
(* whose last two dimensions are (H, W), turned by 180 degrees for the two *)
(* legacy detectors when geometry: the slice [oy, ox, size_y, size_x, rot] *)
(* holds, at (y, x), the element (oy + y, ox + x) of data, or the element  *)
(* (oy + size_y - 1 - y, ox + size_x - 1 - x) when rot.                    *)
_get_module_slice(H, W, m, geometry) ==
    LET rot == geometry /\ detector_name \in {JF02T09V02, JF02T01V02}
    IN  IF detector_name = JF02T09V01
        THEN [oy |-> 0, ox |-> Min(m * MODULE_SIZE_X, W), size_y |-> H,
              size_x |-> Min((m + 1) * MODULE_SIZE_X, W) - Min(m * MODULE_SIZE_X, W),
              rot |-> rot]
        ELSE [oy |-> Min(m * MODULE_SIZE_Y, H), ox |-> 0,
              size_y |-> Min((m + 1) * MODULE_SIZE_Y, H) - Min(m * MODULE_SIZE_Y, H),
              size_x |-> W, rot |-> rot]

\* where element (y, x) of a slice lies in the array it was cut from
SliceSrc(sl, y, x) ==
    IF sl.rot THEN <<sl.oy + sl.size_y - 1 - y, sl.ox + sl.size_x - 1 - x>>
    ELSE <<sl.oy + y, sl.ox + x>>

\* the mask with the first and last row and column of every chip of every
\* module set (pixel_mask setter, the loop over range(n_modules)): (y, x) lies in
\* the slice of one module m at most
OnChipEdge(y, x) ==
    LET m == IF detector_name = JF02T09V01 THEN x \div MODULE_SIZE_X ELSE y \div MODULE_SIZE_Y
        sl == _get_module_slice(_shape_full[1], _shape_full[2], m, FALSE)
        my == y - sl.oy
        mx == x - sl.ox
    IN  /\ m \in 0..(detector_name.n_modules - 1)
        /\ 0 <= my /\ my < sl.size_y /\ 0 <= mx /\ mx < sl.size_x
        /\ \/ \E n \in 0..(CHIP_NUM_X - 1) :
                  mx = CHIP_SIZE_X * n \/ mx = CHIP_SIZE_X * (n + 1) - 1
           \/ \E n \in 0..(CHIP_NUM_Y - 1) :
                  my = CHIP_SIZE_Y * n \/ my = CHIP_SIZE_Y * (n + 1) - 1

\* a mask view [base, edges]: base.astype(bool), with the chip edges set or not
MaskAt(v, y, x) == ArrAt(v.base, <<y, x>>) # 0 \/ (v.edges /\ OnChipEdge(y, x))

---------------------------------------------------------------------------
(* The correction kernels.  A kernel visits the pixels (i2, i3) of every   *)
(* frame i1 of a module slice and writes res[i1, ri2, ri3]; here a kernel  *)
(* gives the value it writes for one pixel, and KernelDest gives           *)
(* (ri2, ri3).  gain, pedestal and mask are None or [view, slice]: a       *)
(* module slice of a table.                                                *)

Zero(dtype) == IF dtype = "float32" THEN <<0, 0>> ELSE IF dtype = "bool" THEN FALSE ELSE 0

\* an integer-valued float as an integer
ToInt(v) == v[1] * Pow2(v[2])

\* the pixels of a module slice the kernels are run on
KernelPix(image) == {q \in ProbePix : q[1] < image.size_y /\ q[2] < image.size_x}

\* KernelDest with the gap of the rows only
KernelDest_rows_only(i2, i3, gap_pixels) ==
    <<i2 + (i2 \div CHIP_SIZE_Y) * CHIP_GAP_Y * (IF gap_pixels THEN 1 ELSE 0), i3>>

KernelDest(i2, i3, gap_pixels) ==
    <<i2 + (i2 \div CHIP_SIZE_Y) * CHIP_GAP_Y * (IF gap_pixels THEN 1 ELSE 0),
      i3 + (i3 \div CHIP_SIZE_X) * CHIP_GAP_X * (IF gap_pixels THEN 1 ELSE 0)>>

\* _correct without the & 0x3FFF
_correct_whole_word(dtype, images, image, gain, pedestal, mask, i1, i2, i3) ==
    LET src == SliceSrc(image, i2, i3)
        raw == ArrAt(images, <<i1, src[1], src[2]>>)
        ms  == SliceSrc(mask.slice, i2, i3)
        gs  == SliceSrc(gain.slice, i2, i3)
        ps  == SliceSrc(pedestal.slice, i2, i3)
        gm  == raw \div 16384
    IN  IF mask # None /\ MaskAt(mask.view, ms[1], ms[2]) THEN Zero(dtype)
        ELSE IF gain = None \/ pedestal = None THEN raw
        ELSE Mul32(raw - ToInt(ViewAt(pedestal.view, gm, ps[1], ps[2])),
                   ViewAt(gain.view, gm, gs[1], gs[2]))

\* _correct passing the magnitude through when there are no tables
_correct_magnitude_only(dtype, images, image, gain, pedestal, mask, i1, i2, i3) ==
    LET src == SliceSrc(image, i2, i3)
        raw == ArrAt(images, <<i1, src[1], src[2]>>)
        ms  == SliceSrc(mask.slice, i2, i3)
        gs  == SliceSrc(gain.slice, i2, i3)
        ps  == SliceSrc(pedestal.slice, i2, i3)
        gm  == raw \div 16384
        val == raw % 16384
    IN  IF mask # None /\ MaskAt(mask.view, ms[1], ms[2]) THEN Zero(dtype)
        ELSE IF gain = None \/ pedestal = None THEN val
        ELSE Mul32(val - ToInt(ViewAt(pedestal.view, gm, ps[1], ps[2])),
                   ViewAt(gain.view, gm, gs[1], gs[2]))

_correct(dtype, images, image, gain, pedestal, mask, i1, i2, i3) ==
    LET src == SliceSrc(image, i2, i3)
        raw == ArrAt(images, <<i1, src[1], src[2]>>)
        ms  == SliceSrc(mask.slice, i2, i3)
        gs  == SliceSrc(gain.slice, i2, i3)
        ps  == SliceSrc(pedestal.slice, i2, i3)
        gm  == raw \div 16384
        val == raw % 16384
    IN  IF mask # None /\ MaskAt(mask.view, ms[1], ms[2]) THEN Zero(dtype)
        ELSE IF gain = None \/ pedestal = None THEN raw
        ELSE Mul32(val - ToInt(ViewAt(pedestal.view, gm, ps[1], ps[2])),
                   ViewAt(gain.view, gm, gs[1], gs[2]))

_correct_highgain(dtype, images, image, gain, pedestal, mask, i1, i2, i3) ==
    LET src == SliceSrc(image, i2, i3)
        raw == ArrAt(images, <<i1, src[1], src[2]>>)
        ms  == SliceSrc(mask.slice, i2, i3)
        gs  == SliceSrc(gain.slice, i2, i3)
        ps  == SliceSrc(pedestal.slice, i2, i3)
        val == raw % 16384
    IN  IF mask # None /\ MaskAt(mask.view, ms[1], ms[2]) THEN Zero(dtype)
        ELSE IF gain = None \/ pedestal = None THEN raw
        ELSE Mul32(val - ToInt(ViewAt(pedestal.view, 0, ps[1], ps[2])),
                   ViewAt(gain.view, 0, gs[1], gs[2]))

_proc_func(parallel) ==
    IF ~_highgain /\ ~parallel THEN "_correct"
    ELSE IF ~_highgain /\ parallel THEN "_correct_parallel"
    ELSE IF _highgain /\ ~parallel THEN "_correct_highgain"
    ELSE "_correct_highgain_parallel"

\* proc_func(module_res, module, module_g, module_p, module_mask, gap_pixels), for one pixel
CallProcFunc(proc_func, dtype, images, image, gain, pedestal, mask, i1, i2, i3) ==
    IF proc_func \in {"_correct", "_correct_parallel"}
    THEN _correct(dtype, images, image, gain, pedestal, mask, i1, i2, i3)
    ELSE _correct_highgain(dtype, images, image, gain, pedestal, mask, i1, i2, i3)

---------------------------------------------------------------------------
(* process.  res is [name, dtype, shape, data]: data holds the output at   *)
(* the observed coordinates <<frame, y, x>>.                               *)

\* the module slice of images the pass for entry i of the module map reads
ModuleOf(images, i, geometry) ==
    _get_module_slice(images.shape[Len(images.shape) - 1], images.shape[Len(images.shape)],
                      _module_map[i + 1], geometry)

\* where that pass puts module_res in res
OriginOf(i, geometry, gap_pixels) ==
    _get_final_module_coordinates(_module_map[i + 1], i, geometry, gap_pixels)

\* what the pass for entry i (not -1) of the module map writes for pixel q of frame f:
\* the body of the loop of _process
_process_module(dtype, images, i, conversion, mask, gap_pixels, geometry, parallel, f, q) ==
    LET module == ModuleOf(images, i, geometry)
        module_mask ==
            IF mask
            THEN [view |-> _mask,
                  slice |-> _get_module_slice(_mask.base.shape[1], _mask.base.shape[2],
                                              i, geometry)]
            ELSE None
        module_g ==
            IF conversion
            THEN [view |-> _g,
                  slice |-> _get_module_slice(_g.base.shape[2], _g.base.shape[3], i, geometry)]
            ELSE None
        module_p ==
            IF conversion
            THEN [view |-> _p,
                  slice |-> _get_module_slice(_p.base.shape[2], _p.base.shape[3], i, geometry)]
            ELSE None
    IN  CallProcFunc(_proc_func(parallel), dtype, images, module, module_g, module_p,
                     module_mask, f, q[1], q[2])

\* the blocks whose places are observed in the output
ObservedBlockIds ==
    {b \in 0..(detector_name.n_modules - 1) :
        b < ObservedBlocks \/ b = detector_name.n_modules - 1}

\* places of the gaps between the chips of a block
GapPix == {<<256, 0>>, <<0, 256>>, <<257, 773>>}

BlockOffsets(gap_pixels) ==
    {KernelDest(q[1], q[2], gap_pixels) : q \in ProbePix}
        \cup (IF gap_pixels THEN GapPix ELSE {})

ObservedOrigins(gap_pixels, geometry) ==
    {_get_final_module_coordinates(b, b, geometry, gap_pixels) : b \in ObservedBlockIds}

\* the observed coordinates of an output of the given shape: the observed
\* offsets of the observed blocks and, with geometry, the corner (0, 0), which
\* lies between the modules of the detectors of 32 modules
Obs(shape, gap_pixels, geometry) ==
    {d \in {<<f, o[1] + q[1], o[2] + q[2]>> :
               f \in 0..(shape[1] - 1), o \in ObservedOrigins(gap_pixels, geometry),
               q \in BlockOffsets(gap_pixels)}
            \cup (IF geometry THEN {<<f, 0, 0>> : f \in 0..(shape[1] - 1)} ELSE {}) :
        d[2] < shape[2] /\ d[3] < shape[3]}

SetMax(S) == CHOOSE i \in S : \A j \in S : j <= i

(* _process: the passes for the entries 0, 1, ... of the module map, in    *)
(* this order.  What res holds at d in the end is what the last pass that  *)
(* writes d leaves there.  Only a pass whose module_res starts at an       *)
(* observed origin writes an observed place: the blocks of a detector      *)
(* coincide or are disjoint.                                               *)
_process(res, images, conversion, mask, gap_pixels, geometry, parallel) ==
    LET origins == ObservedOrigins(gap_pixels, geometry)
        passes == {i \in 0..(Len(_module_map) - 1) :
                      /\ _module_map[i + 1] # -1
                      /\ OriginOf(i, geometry, gap_pixels) \in origins}
        writes == UNION {{<<i, q>> : q \in KernelPix(ModuleOf(images, i, geometry))} :
                            i \in passes}
        dest(w) == LET o == OriginOf(w[1], geometry, gap_pixels)
                       r == KernelDest(w[2][1], w[2][2], gap_pixels)
                   IN  <<o[1] + r[1], o[2] + r[2]>>
        placed == {<<dest(w), w>> : w \in writes}
    IN  [res EXCEPT !.data =
            [d \in DOMAIN res.data |->
                LET W == {pw \in placed : pw[1] = <<d[2], d[3]>>}
                IN  IF W = {} THEN res.data[d]
                    ELSE LET last == SetMax({pw[2][1] : pw \in W})
                             w == CHOOSE pw \in W : pw[2][1] = last
                         IN  _process_module(res.dtype, images, last, conversion, mask,
                                             gap_pixels, geometry, parallel, d[1], w[2][2])]]

\* np.zeros(shape, dtype)
zeros(shape, dtype, obs) ==
    [name |-> "res", dtype |-> dtype, shape |-> shape, data |-> [d \in obs |-> Zero(dtype)]]

\* np.rot90(res, axes=(1, 2)): element (y, x) goes to (W - 1 - x, y)
rot90(res) ==
    LET W == res.shape[3]
        to(d) == <<d[1], W - 1 - d[3], d[2]>>
        from(e) == <<e[1], e[3], W - 1 - e[2]>>
    IN  [res EXCEPT !.shape = <<res.shape[1], res.shape[3], res.shape[2]>>,
                    !.data = [e \in {to(d) : d \in DOMAIN res.data} |-> res.data[from(e)]]]

Raised(kind, msg) == [status |-> kind, msg |-> msg]

Returned(value) == [status |-> "ok", value |-> value]

\* process_entry without the return of the unchanged images
process_entry_no_fast_path(images, conversion, mask, gap_pixels, geometry) ==
    LET image_shape == <<images.shape[2], images.shape[3]>>
    IN  IF image_shape # _shape_in THEN Raised("ValueError", "image shape")
        ELSE IF conversion /\ ~can_convert
        THEN Raised("RuntimeError", "Gain and/or pedestal values are not set.")
        ELSE IF mask /\ _mask = None
        THEN Raised("RuntimeError", "Pixel mask values are not set.")
        ELSE IF get_dtype_out_raises(images.dtype, conversion)
        THEN Raised("TypeError", "Only images of type uint16 can be converted.")
        ELSE None

\* process up to the allocation of res: what it raises or returns there, or None
\* when it goes on to _process
process_entry(images, conversion, mask, gap_pixels, geometry) ==
    LET image_shape == <<images.shape[2], images.shape[3]>>
    IN  IF image_shape # _shape_in THEN Raised("ValueError", "image shape")
        ELSE IF ~(conversion \/ mask \/ gap_pixels \/ geometry) THEN Returned(images)
        ELSE IF conversion /\ ~can_convert
        THEN Raised("RuntimeError", "Gain and/or pedestal values are not set.")
        ELSE IF mask /\ _mask = None
        THEN Raised("RuntimeError", "Pixel mask values are not set.")
        ELSE IF get_dtype_out_raises(images.dtype, conversion)
        THEN Raised("TypeError", "Only images of type uint16 can be converted.")
        ELSE None

\* gap_pixels after the stripsel downgrade
process_gap(gap_pixels) == IF is_stripsel /\ gap_pixels THEN FALSE ELSE gap_pixels

\* res as process allocates it
process_res(images, conversion, gap_pixels, geometry) ==
    LET gap == process_gap(gap_pixels)
        res_shape == <<images.shape[1]>> \o get_shape_out(gap, geometry)
    IN  zeros(res_shape, get_dtype_out(images.dtype, conversion),
              Obs(res_shape, gap, geometry))

\* what process returns once the loop of _process has left res
process_exit(res, geometry) ==
    IF geometry /\ detector_name.id = 6 THEN Returned(rot90(res)) ELSE Returned(res)

\* the body of process, on a stack of images
process_stack(images, conversion, mask, gap_pixels, geometry, parallel) ==
    LET entry == process_entry(images, conversion, mask, gap_pixels, geometry)
    IN  IF entry # None THEN entry
        ELSE process_exit(_process(process_res(images, conversion, gap_pixels, geometry),
                                   images, conversion, mask, process_gap(gap_pixels),
                                   geometry, parallel),
                          geometry)

\* images[np.newaxis], under _allow_2darray
newaxis(images) ==
    IF ndim(images) = 2 THEN [images EXCEPT !.shape = <<1>> \o images.shape] ELSE images

\* the result of the wrapped function, its first axis dropped for a 2-D input
allow_2darray_out(images, out) ==
    IF out.status = "ok" /\ ndim(images) = 2
    THEN [out EXCEPT !.value.shape = Tail(out.value.shape)]
    ELSE out

\* process, under _allow_2darray
process(images, conversion, mask, gap_pixels, geometry, parallel) ==
    allow_2darray_out(images,
        process_stack(newaxis(images), conversion, mask, gap_pixels, geometry, parallel))

---------------------------------------------------------------------------
(* get_pixel_mask.  The array it builds holds the sampled pixels of every  *)
(* slot; np.empty leaves in every element whatever the memory held: junk   *)
(* gives that for each element on its own.                                 *)

\* the sampled elements of an array of the given shape
Sampled(shape) ==
    {<<m * MODULE_SIZE_Y + q[1], q[2]>> :
        m \in 0..((shape[1] \div MODULE_SIZE_Y) - 1), q \in ProbePix}

\* the elements of res that the loop of get_pixel_mask leaves as np.empty made
\* them: those of the slots no enabled entry of the module map names
Unfilled ==
    {d \in Sampled(_shape_in) :
        \A i \in DOMAIN _module_map : _module_map[i] # d[1] \div MODULE_SIZE_Y}

\* np.empty(shape, dtype): junk holds what the memory held at the elements the
\* loop does not overwrite; the others are overwritten before they are read
empty(shape, dtype, junk) ==
    [name |-> "pm", dtype |-> dtype, shape |-> shape,
     data |-> [d \in Sampled(shape) |-> IF d \in DOMAIN junk THEN junk[d] ELSE FALSE]]

\* np.invert(a)
invert(a) == [a EXCEPT !.data = [d \in DOMAIN a.data |-> ~a.data[d]]]

\* module_res[:] = module raises when the slot m lies beyond res, whose slice
\* for it is empty
get_pixel_mask_raises ==
    IF \E i \in DOMAIN _module_map :
           _module_map[i] # -1 /\ _module_map[i] >= _number_active_modules
    THEN Raised("ValueError", "could not broadcast input array")
    ELSE None

\* get_pixel_mask_fill reading the mask of the slot, not of the module
get_pixel_mask_fill_by_slot(res) ==
    [res EXCEPT !.data =
        [d \in DOMAIN res.data |->
            LET m == d[1] \div MODULE_SIZE_Y
                from == {i \in 0..(Len(_module_map) - 1) : _module_map[i + 1] = m}
            IN  IF from = {} THEN res.data[d]
                ELSE MaskAt(_mask, m * MODULE_SIZE_Y + (d[1] % MODULE_SIZE_Y), d[2])]]

\* res after the loop of get_pixel_mask: the slot m holds the mask of the last
\* module i whose entry is m
get_pixel_mask_fill(res) ==
    [res EXCEPT !.data =
        [d \in DOMAIN res.data |->
            LET m == d[1] \div MODULE_SIZE_Y
                from == {i \in 0..(Len(_module_map) - 1) : _module_map[i + 1] = m}
            IN  IF from = {} THEN res.data[d]
                ELSE MaskAt(_mask, SetMax(from) * MODULE_SIZE_Y + (d[1] % MODULE_SIZE_Y),
                            d[2])]]

get_pixel_mask(gap_pixels, geometry, junk) ==
    IF _mask = None THEN Returned(None)
    ELSE IF get_pixel_mask_raises # None THEN get_pixel_mask_raises
    ELSE LET res == get_pixel_mask_fill(empty(_shape_in, "bool", junk))
             out == process(invert(res), FALSE, FALSE, gap_pixels, geometry, FALSE)
         IN  IF out.status = "ok" THEN Returned(invert(out.value)) ELSE out

---------------------------------------------------------------------------
(* The setters.  X_raises(value) is what the setter of X raises for value, *)
(* or None; X_store(value) is what it does to the fields.  call and ret    *)
(* record the operation called and how it ended.  An operation says        *)
(* nothing about proc, the call of process another thread may be in.       *)

\* np.arange(n)
arange(n) == [k \in 1..n |-> k - 1]

Idle == [pc |-> "idle"]

gain_raises(value) ==
    IF value = None THEN None
    ELSE IF ndim(value) # 3 THEN Raised("ValueError", "gain dimensions")
    ELSE IF value.shape # <<4>> \o _shape_full THEN Raised("ValueError", "gain shape")
    ELSE None

\* gain_store without _g[3] = _g[2]
gain_store_no_alias(value) ==
    IF value = None
    THEN /\ _gain' = None
         /\ UNCHANGED _g_all
    ELSE IF ndim(value) # 3
    THEN UNCHANGED <<_gain, _g_all>>
    ELSE IF value.shape # <<4>> \o _shape_full
    THEN UNCHANGED <<_gain, _g_all>>
    ELSE LET gain == astype(value, "float32")
             g == Inverse(gain)
         IN  /\ _gain' = gain
             /\ _g_all' = [b \in BOOLEAN |-> IF b THEN PlanesFrom(g, 3) ELSE g]

gain_store(value) ==
    IF value = None
    THEN /\ _gain' = None
         /\ UNCHANGED _g_all
    ELSE IF ndim(value) # 3
    THEN UNCHANGED <<_gain, _g_all>>
    ELSE IF value.shape # <<4>> \o _shape_full
    THEN UNCHANGED <<_gain, _g_all>>
    ELSE LET gain == astype(value, "float32")
             g == Inverse(gain)
         IN  /\ _gain' = gain
             /\ _g_all' = [b \in BOOLEAN |->
                              IF b THEN PlanesFrom(g, 3) ELSE SetPlane(g, 3, 2)]

gain_setter(value) ==
    /\ call' = [op |-> "gain", value |-> value]
    /\ gain_store(value)
    /\ ret' = IF gain_raises(value) = None THEN Returned(None) ELSE gain_raises(value)
    /\ UNCHANGED <<detector_name, _pedestal, _pixel_mask, _highgain, _p_all, _module_map,
                   _mask_all, _mask_double_pixels, _gain_file, _pedestal_file>>

pedestal_raises(value) ==
    IF value = None THEN None
    ELSE IF ndim(value) # 3 THEN Raised("ValueError", "pedestal dimensions")
    ELSE IF value.shape # <<4>> \o _shape_full THEN Raised("ValueError", "pedestal shape")
    ELSE None

pedestal_store(value) ==
    IF value = None
    THEN /\ _pedestal' = None
         /\ UNCHANGED _p_all
    ELSE IF ndim(value) # 3
    THEN UNCHANGED <<_pedestal, _p_all>>
    ELSE IF value.shape # <<4>> \o _shape_full
    THEN UNCHANGED <<_pedestal, _p_all>>
    ELSE LET pedestal == astype(value, "float32")
             p == Copy(pedestal)
         IN  /\ _pedestal' = pedestal
             /\ _p_all' = [b \in BOOLEAN |->
                              IF b THEN PlanesFrom(p, 3) ELSE SetPlane(p, 3, 2)]

pedestal_setter(value) ==
    /\ call' = [op |-> "pedestal", value |-> value]
    /\ pedestal_store(value)
    /\ ret' = IF pedestal_raises(value) = None THEN Returned(None)
              ELSE pedestal_raises(value)
    /\ UNCHANGED <<detector_name, _gain, _pixel_mask, _highgain, _g_all, _module_map,
                   _mask_all, _mask_double_pixels, _gain_file, _pedestal_file>>

pixel_mask_raises(value) ==
    IF value = None THEN None
    ELSE IF ndim(value) # 2 THEN Raised("ValueError", "pixel_mask dimensions")
    ELSE IF value.shape # _shape_full THEN Raised("ValueError", "pixel_mask shape")
    ELSE None

\* pixel_mask_store keeping for the plain view the array the edges are set in
pixel_mask_store_no_copy(value) ==
    IF value = None
    THEN /\ _pixel_mask' = None
         /\ UNCHANGED _mask_all
    ELSE IF ndim(value) # 2
    THEN UNCHANGED <<_pixel_mask, _mask_all>>
    ELSE IF value.shape # _shape_full
    THEN UNCHANGED <<_pixel_mask, _mask_all>>
    ELSE /\ _pixel_mask' = value
         /\ _mask_all' = [b \in BOOLEAN |-> [base |-> value, edges |-> TRUE]]

pixel_mask_store(value) ==
    IF value = None
    THEN /\ _pixel_mask' = None
         /\ UNCHANGED _mask_all
    ELSE IF ndim(value) # 2
    THEN UNCHANGED <<_pixel_mask, _mask_all>>
    ELSE IF value.shape # _shape_full
    THEN UNCHANGED <<_pixel_mask, _mask_all>>
    ELSE /\ _pixel_mask' = value
         /\ _mask_all' = [b \in BOOLEAN |-> [base |-> value, edges |-> b]]

pixel_mask_setter(value) ==
    /\ call' = [op |-> "pixel_mask", value |-> value]
    /\ pixel_mask_store(value)
    /\ ret' = IF pixel_mask_raises(value) = None THEN Returned(None)
              ELSE pixel_mask_raises(value)
    /\ UNCHANGED <<detector_name, _gain, _pedestal, _highgain, _g_all, _p_all, _module_map,
                   _mask_double_pixels, _gain_file, _pedestal_file>>

highgain_setter(value) ==
    /\ call' = [op |-> "highgain", value |-> value]
    /\ _highgain' = value
    /\ ret' = Returned(None)
    /\ UNCHANGED <<detector_name, _gain, _pedestal, _pixel_mask, _g_all, _p_all, _module_map,
                   _mask_all, _mask_double_pixels, _gain_file, _pedestal_file>>

mask_double_pixels_setter(value) ==
    /\ call' = [op |-> "mask_double_pixels", value |-> value]
    /\ _mask_double_pixels' = value
    /\ ret' = Returned(None)
    /\ UNCHANGED <<detector_name, _gain, _pedestal, _pixel_mask, _highgain, _g_all, _p_all,
                   _module_map, _mask_all, _gain_file, _pedestal_file>>

\* module_map_raises with n_modules < max(value)
module_map_raises_off_by_one(value) ==
    IF value = None THEN None
    ELSE IF Len(value.seq) # detector_name.n_modules
    THEN Raised("ValueError", "module_map length")
    ELSE IF SeqMin(value.seq) < -1 \/ detector_name.n_modules < SeqMax(value.seq)
    THEN Raised("ValueError", "module_map values")
    ELSE None

\* value is None or [seq |-> the sequence given]
module_map_raises(value) ==
    IF value = None THEN None
    ELSE IF Len(value.seq) # detector_name.n_modules
    THEN Raised("ValueError", "module_map length")
    ELSE IF SeqMin(value.seq) < -1 \/ detector_name.n_modules <= SeqMax(value.seq)
    THEN Raised("ValueError", "module_map values")
    ELSE None

\* module_map_store storing the value before its values are looked at
module_map_store_unchecked(value) ==
    LET n_modules == detector_name.n_modules
    IN  IF value = None
        THEN _module_map' = arange(n_modules)
        ELSE IF Len(value.seq) # n_modules
        THEN UNCHANGED _module_map
        ELSE _module_map' = value.seq

module_map_store(value) ==
    LET n_modules == detector_name.n_modules
    IN  IF value = None
        THEN _module_map' = arange(n_modules)
        ELSE IF Len(value.seq) # n_modules
        THEN UNCHANGED _module_map
        ELSE IF SeqMin(value.seq) < -1 \/ n_modules <= SeqMax(value.seq)
        THEN UNCHANGED _module_map
        ELSE _module_map' = value.seq

module_map_setter(value) ==
    /\ call' = [op |-> "module_map", value |-> value]
    /\ module_map_store(value)
    /\ ret' = IF module_map_raises(value) = None THEN Returned(None)
              ELSE module_map_raises(value)
    /\ UNCHANGED <<detector_name, _gain, _pedestal, _pixel_mask, _highgain, _g_all,
                   _p_all, _mask_all, _mask_double_pixels, _gain_file, _pedestal_file>>

(* Calibration files.  A file is read as what its datasets hold:           *)
(* [gains, pixel_mask].                                                     *)
H5File(filepath) ==
    LET tall == <<_shape_full[1] + MODULE_SIZE_Y, _shape_full[2]>>
    IN  [gains |-> Arr(CASE filepath = "gains.h5" -> "GA"
                         [] filepath = "gains_tall.h5" -> "GB"
                         [] filepath = "pedestal.h5" -> "PA"
                         [] OTHER -> "PB",
                       "float32",
                       <<4>> \o (IF filepath \in {"gains_tall.h5", "pedestal_tall.h5"}
                                 THEN tall ELSE _shape_full)),
         pixel_mask |-> Arr("M1", "uint32",
                            IF filepath = "pedestal_mask_tall.h5" THEN tall
                            ELSE _shape_full)]

gain_file_setter(filepath) ==
    /\ call' = [op |-> "gain_file", value |-> filepath]
    /\ UNCHANGED <<detector_name, _pedestal, _pixel_mask, _highgain, _p_all, _module_map,
                   _mask_all, _mask_double_pixels, _pedestal_file>>
    /\ IF filepath = ""
       THEN /\ _gain_file' = ""
            /\ gain_store(None)
            /\ ret' = Returned(None)
       ELSE IF filepath = _gain_file
       THEN /\ UNCHANGED <<_gain_file, _gain, _g_all>>
            /\ ret' = Returned(None)
       ELSE LET gains == H5File(filepath).gains
            IN  /\ _gain_file' = filepath
                /\ gain_store(gains)
                /\ ret' = IF gain_raises(gains) = None THEN Returned(None)
                          ELSE gain_raises(gains)

pedestal_file_setter(filepath) ==
    /\ call' = [op |-> "pedestal_file", value |-> filepath]
    /\ UNCHANGED <<detector_name, _gain, _highgain, _g_all, _module_map,
                   _mask_double_pixels, _gain_file>>
    /\ IF filepath = ""
       THEN /\ _pedestal_file' = ""
            /\ pedestal_store(None)
            /\ pixel_mask_store(None)
            /\ ret' = Returned(None)
       ELSE IF filepath = _pedestal_file
       THEN /\ UNCHANGED <<_pedestal_file, _pedestal, _p_all, _pixel_mask, _mask_all>>
            /\ ret' = Returned(None)
       ELSE LET pedestal == H5File(filepath).gains
                pixel_mask == H5File(filepath).pixel_mask
            IN  /\ _pedestal_file' = filepath
                /\ pedestal_store(pedestal)
                /\ IF pedestal_raises(pedestal) # None
                   THEN /\ UNCHANGED <<_pixel_mask, _mask_all>>
                        /\ ret' = pedestal_raises(pedestal)
                   ELSE /\ pixel_mask_store(pixel_mask)
                        /\ ret' = IF pixel_mask_raises(pixel_mask) = None
                                  THEN Returned(None)
                                  ELSE pixel_mask_raises(pixel_mask)

do_process(images, conversion, mask, gap_pixels, geometry, parallel) ==
    /\ call' = [op |-> "process", images |-> images, conversion |-> conversion,
                mask |-> mask, gap_pixels |-> gap_pixels, geometry |-> geometry,
                parallel |-> parallel]
    /\ ret' = process(images, conversion, mask, gap_pixels, geometry, parallel)
    /\ UNCHANGED handler

---------------------------------------------------------------------------
(* The values the operations are called with *)

GainNames == {"GA", "GB"}

PedestalNames == {"PA", "PB"}

MaskNames == {"M1"}

TallerShape == <<_shape_full[1] + MODULE_SIZE_Y, _shape_full[2]>>

\* gain tables the setter takes, as read from a file (float32) or computed (float64)
GainArrays == {Arr(nm, "float64", <<4>> \o _shape_full) : nm \in GainNames}

\* gain values the setter rejects: two dimensions, one module too many, three stages
BadGainArrays ==
    {Arr("GA", "float32", _shape_full),
     Arr("GA", "float32", <<4>> \o TallerShape),
     Arr("GA", "float32", <<3>> \o _shape_full)}

PedestalArrays == {Arr(nm, "float64", <<4>> \o _shape_full) : nm \in PedestalNames}

BadPedestalArrays ==
    {Arr("PA", "float32", _shape_full),
     Arr("PA", "float32", <<4>> \o TallerShape),
     Arr("PA", "float32", <<3>> \o _shape_full)}

PixelMaskArrays == {Arr(nm, "uint32", _shape_full) : nm \in MaskNames}

\* the masks of one marked pixel: in a module before the last, and in the last
OnePixelMaskArrays == {Arr(nm, "uint32", _shape_full) : nm \in {"M1", "ML"}}

BadPixelMaskArrays ==
    {Arr("M1", "uint32", <<4>> \o _shape_full),
     Arr("M1", "uint32", TallerShape)}

\* module maps of n entries the setter takes: all present; entry 1 disabled and
\* the rest as they were; entry 1 disabled and the later modules one slot down;
\* entries 2 and 3 reading the same slot; none present
ModuleMaps ==
    LET n == detector_name.n_modules
        id == arange(n)
        one == IF n > 1 THEN 2 ELSE 1
    IN  {[seq |-> sq] : sq \in
            {id,
             [id EXCEPT ![one] = -1],
             [k \in 1..n |-> IF k < one THEN k - 1 ELSE IF k = one THEN -1 ELSE k - 2],
             IF n > 3 THEN [id EXCEPT ![4] = 2] ELSE id,
             [k \in 1..n |-> -1]}}

\* module maps the setter rejects: too long, too short, a value n, a value -2
BadModuleMaps ==
    LET n == detector_name.n_modules
        id == arange(n)
    IN  {[seq |-> sq] : sq \in
            {arange(n + 1),
             SubSeq(id, 1, n - 1),
             [id EXCEPT ![n] = n],
             [id EXCEPT ![1] = -2]}}

FilePaths == {"", "pedestal.h5"}

ParallelValues == {FALSE}

\* stacks and single images of the shape the handler expects, and a stack one
\* module too tall
ImagesValues ==
    {Arr("I1", "uint16", <<f>> \o _shape_in) : f \in 1..MaxFrames}
        \cup {Arr("I2", "uint16", _shape_in),
              Arr("I1", "uint16", <<1>> \o <<_shape_in[1] + MODULE_SIZE_Y, _shape_in[2]>>)}

---------------------------------------------------------------------------
(* The handler used from one thread.  A run ends with its call of process  *)
(* or get_pixel_mask: they leave the handler alone, so the handler is in   *)
(* the same states as in runs that go on after it.                         *)

Init ==
    /\ detector_name \in modules_orig_keys
    /\ _gain_file = ""
    /\ _pedestal_file = ""
    /\ _gain = None
    /\ _pedestal = None
    /\ _pixel_mask = None
    /\ _highgain = FALSE
    /\ _g_all = [b \in BOOLEAN |-> None]
    /\ _p_all = [b \in BOOLEAN |-> None]
    /\ _module_map = arange(detector_name.n_modules)
    /\ _mask_all = [b \in BOOLEAN |-> None]
    /\ _mask_double_pixels = FALSE
    /\ call = [op |-> "__init__"]
    /\ ret = Returned(None)
    /\ proc = Idle
    /\ calib = None

Running == call.op \notin {"process", "get_pixel_mask"} /\ proc = Idle

SetGain(values) ==
    \E value \in values : Running /\ gain_setter(value) /\ UNCHANGED <<proc, calib>>

SetPedestal(values) ==
    \E value \in values : Running /\ pedestal_setter(value) /\ UNCHANGED <<proc, calib>>

SetPixelMask(values) ==
    \E value \in values : Running /\ pixel_mask_setter(value) /\ UNCHANGED <<proc, calib>>

SetHighgain ==
    \E value \in BOOLEAN : Running /\ highgain_setter(value) /\ UNCHANGED <<proc, calib>>

SetMaskDoublePixels ==
    \E value \in BOOLEAN : Running /\ mask_double_pixels_setter(value) /\ UNCHANGED <<proc, calib>>

SetModuleMap(values) ==
    \E value \in values : Running /\ module_map_setter(value) /\ UNCHANGED <<proc, calib>>

SetGainFile ==
    \E filepath \in {"", "gains.h5"} :
        Running /\ gain_file_setter(filepath) /\ UNCHANGED <<proc, calib>>

SetPedestalFile ==
    \E filepath \in FilePaths :
        Running /\ pedestal_file_setter(filepath) /\ UNCHANGED <<proc, calib>>

Process ==
    \E images \in ImagesValues, conversion \in BOOLEAN, mask \in BOOLEAN,
       gap_pixels \in BOOLEAN, geometry \in BOOLEAN, parallel \in ParallelValues :
        /\ Running
        /\ do_process(images, conversion, mask, gap_pixels, geometry, parallel)
        /\ UNCHANGED <<proc, calib>>

\* junk is what the memory np.empty hands out holds, element by element
GetPixelMask ==
    \E gap_pixels \in BOOLEAN, geometry \in BOOLEAN, junk \in [Unfilled -> BOOLEAN] :
        /\ Running
        /\ call' = [op |-> "get_pixel_mask", gap_pixels |-> gap_pixels,
                    geometry |-> geometry]
        /\ ret' = get_pixel_mask(gap_pixels, geometry, junk)
        /\ UNCHANGED <<handler, proc, calib>>

\* the setters, called with values they take and values they reject
Next ==
    \/ SetGain({None, Arr("GA", "float64", <<4>> \o _shape_full)} \cup BadGainArrays)
    \/ SetPedestal({None, Arr("PA", "float64", <<4>> \o _shape_full)} \cup BadPedestalArrays)
    \/ SetPixelMask({None} \cup PixelMaskArrays \cup BadPixelMaskArrays)
    \/ SetHighgain
    \/ SetMaskDoublePixels
    \/ SetModuleMap({None} \cup ModuleMaps \cup BadModuleMaps)

Spec == Init /\ [][Next]_vars

\* the calibration tables and process
NextTables ==
    \/ SetGain({None} \cup GainArrays \cup BadGainArrays)
    \/ SetPedestal({None} \cup PedestalArrays \cup BadPedestalArrays)
    \/ SetHighgain
    \/ Process

SpecTables == Init /\ [][NextTables]_vars

\* the pixel mask and process
NextMask ==
    \/ SetPixelMask({None} \cup PixelMaskArrays)
    \/ SetMaskDoublePixels
    \/ SetPedestalFile
    \/ Process

SpecMask == Init /\ [][NextMask]_vars

\* the module map and process, with and without the tables and the mask
NextMap ==
    \/ SetGain({Arr("GA", "float64", <<4>> \o _shape_full)})
    \/ SetPedestal({Arr("PA", "float64", <<4>> \o _shape_full)})
    \/ SetPixelMask(OnePixelMaskArrays)
    \/ SetModuleMap({None} \cup ModuleMaps \cup BadModuleMaps)
    \/ Process

SpecMap == Init /\ [][NextMap]_vars

\* the pixel mask, the module map and get_pixel_mask
NextPixelMask ==
    \/ SetPixelMask({None, Arr("M0", "uint32", _shape_full)} \cup PixelMaskArrays)
    \/ SetMaskDoublePixels
    \/ SetModuleMap({None} \cup ModuleMaps)
    \/ GetPixelMask

SpecPixelMask == Init /\ [][NextPixelMask]_vars

---------------------------------------------------------------------------
(* The handler used from two threads: thread A calls process, thread B     *)
(* assigns to the handler.  No lock is held: the interpreter switches      *)
(* threads between any two reads or writes of a field of the handler.  A   *)
(* step of A is one read of a field: self.module_map for the shape check   *)
(* (line 454), self.gain and self.pedestal (463), the flag and the table   *)
(* of self._mask (466), self.module_map for get_shape_out (473), each read *)
(* of self.highgain in _proc_func (622-631), self.module_map for the loop  *)
(* (501), the flag and then the table of self._mask, self._g and self._p   *)
(* in every pass (507-509), or the call of the kernel, which reads no      *)
(* field.  A step of B is one write of a field: a setter is the sequence   *)
(* of its writes, which proc.writes holds from its first write on.  B may  *)
(* be in a setter when A calls process, and begin one wherever A stands.   *)

\* the operations of thread B that overlap one call of process
MaxAssigned == 2

\* the enabled entries of the module map of a call that is run step by step
MaxConcModules == 2

\* the write of one field, or of one entry of one of the dictionaries
FieldWrite(field, key, value) == [field |-> field, key |-> key, value |-> value]

Write(w) ==
    /\ _gain' = IF w.field = "_gain" THEN w.value ELSE _gain
    /\ _g_all' = IF w.field = "_g_all" THEN [_g_all EXCEPT ![w.key] = w.value] ELSE _g_all
    /\ _pedestal' = IF w.field = "_pedestal" THEN w.value ELSE _pedestal
    /\ _p_all' = IF w.field = "_p_all" THEN [_p_all EXCEPT ![w.key] = w.value] ELSE _p_all
    /\ _pixel_mask' = IF w.field = "_pixel_mask" THEN w.value ELSE _pixel_mask
    /\ _mask_all' = IF w.field = "_mask_all" THEN [_mask_all EXCEPT ![w.key] = w.value]
                    ELSE _mask_all
    /\ _highgain' = IF w.field = "_highgain" THEN w.value ELSE _highgain
    /\ _mask_double_pixels' = IF w.field = "_mask_double_pixels" THEN w.value
                              ELSE _mask_double_pixels
    /\ _module_map' = IF w.field = "_module_map" THEN w.value ELSE _module_map
    /\ _gain_file' = IF w.field = "_gain_file" THEN w.value ELSE _gain_file
    /\ _pedestal_file' = IF w.field = "_pedestal_file" THEN w.value ELSE _pedestal_file
    /\ UNCHANGED detector_name

\* the writes of the gain setter, in their order (lines 217, 229, 233, 236);
\* _g[3] = _g[2] (line 235) changes an array no field holds yet
gain_writes(value) ==
    IF value = None THEN <<FieldWrite("_gain", FALSE, None)>>
    ELSE IF gain_raises(value) # None THEN <<>>
    ELSE LET gain == astype(value, "float32")
             g == Inverse(gain)
         IN  <<FieldWrite("_gain", FALSE, gain),
               FieldWrite("_g_all", TRUE, PlanesFrom(g, 3)),
               FieldWrite("_g_all", FALSE, SetPlane(g, 3, 2))>>

\* the writes of the pedestal setter (lines 273, 287, 291, 294)
pedestal_writes(value) ==
    IF value = None THEN <<FieldWrite("_pedestal", FALSE, None)>>
    ELSE IF pedestal_raises(value) # None THEN <<>>
    ELSE LET pedestal == astype(value, "float32")
             p == Copy(pedestal)
         IN  <<FieldWrite("_pedestal", FALSE, pedestal),
               FieldWrite("_p_all", TRUE, PlanesFrom(p, 3)),
               FieldWrite("_p_all", FALSE, SetPlane(p, 3, 2))>>

\* the writes of the pixel_mask setter (lines 326, 340, 344, 356); the loop
\* over the modules (345-354) changes an array no field holds yet
pixel_mask_writes(value) ==
    IF value = None THEN <<FieldWrite("_pixel_mask", FALSE, None)>>
    ELSE IF pixel_mask_raises(value) # None THEN <<>>
    ELSE <<FieldWrite("_pixel_mask", FALSE, value),
           FieldWrite("_mask_all", FALSE, [base |-> value, edges |-> FALSE]),
           FieldWrite("_mask_all", TRUE, [base |-> value, edges |-> TRUE])>>

highgain_writes(value) == <<FieldWrite("_highgain", FALSE, value)>>

mask_double_pixels_writes(value) == <<FieldWrite("_mask_double_pixels", FALSE, value)>>

module_map_writes(value) ==
    IF value = None
    THEN <<FieldWrite("_module_map", FALSE, arange(detector_name.n_modules))>>
    ELSE IF module_map_raises(value) # None THEN <<>>
    ELSE <<FieldWrite("_module_map", FALSE, value.seq)>>

\* the writes of the gain_file setter: the path, then those of the gain setter
gain_file_writes(filepath) ==
    IF filepath = ""
    THEN <<FieldWrite("_gain_file", FALSE, "")>> \o gain_writes(None)
    ELSE IF filepath = _gain_file THEN <<>>
    ELSE <<FieldWrite("_gain_file", FALSE, filepath)>> \o gain_writes(H5File(filepath).gains)

\* the writes of the pedestal_file setter: the path, those of the pedestal setter
\* and, when that has not raised, those of the pixel_mask setter
pedestal_file_writes(filepath) ==
    IF filepath = ""
    THEN <<FieldWrite("_pedestal_file", FALSE, "")>>
            \o pedestal_writes(None) \o pixel_mask_writes(None)
    ELSE IF filepath = _pedestal_file THEN <<>>
    ELSE LET pedestal == H5File(filepath).gains
             pixel_mask == H5File(filepath).pixel_mask
         IN  <<FieldWrite("_pedestal_file", FALSE, filepath)>>
                \o pedestal_writes(pedestal)
                \o (IF pedestal_raises(pedestal) # None THEN <<>>
                    ELSE pixel_mask_writes(pixel_mask))

\* the views a pass of the loop reads when no other thread runs
PassReads(conversion, mask) ==
    [mask |-> IF mask THEN _mask ELSE None,
     g |-> IF conversion THEN _g ELSE None,
     p |-> IF conversion THEN _p ELSE None]

\* of the views v, those a call with these flags reads
AskedOf(v, conversion, mask) ==
    [mask |-> IF mask THEN v.mask ELSE None,
     g |-> IF conversion THEN v.g ELSE None,
     p |-> IF conversion THEN v.p ELSE None]

\* the first entry of the module map mm from i on that is not -1, or its length:
\* the loop makes a pass for every such entry, also when its slice of the images
\* is empty (lines 501-503)
NextEntry(mm, i) ==
    LET left == {j \in i..(Len(mm) - 1) : mm[j + 1] # -1}
    IN  IF left = {} THEN Len(mm) ELSE CHOOSE j \in left : \A k \in left : j <= k

\* where a pass starts: at the first field it reads
FirstRead(conversion, mask) == IF mask THEN "mask" ELSE IF conversion THEN "g" ELSE "call"

\* where the call stands after the pass for entry i - 1 of the map mm
AfterPass(mm, i, conversion, mask) ==
    IF i = Len(mm) THEN "loop" ELSE FirstRead(conversion, mask)

\* the places of a call that is in the loop of _process
LoopPcs == {"loop", "mask", "mask_all", "g", "g_all", "p", "p_all", "call"}

\* what the kernel of a pass is called with for entry i: rd holds the module map
\* and the kernel taken before the loop and the views this pass has read (None
\* for a view the flags do not ask for)
PassArgs(rd, images, i, geometry) ==
    [module |-> _get_module_slice(images.shape[Len(images.shape) - 1],
                                  images.shape[Len(images.shape)], rd.module_map[i + 1],
                                  geometry),
     module_mask |->
        IF rd.mask = None THEN None
        ELSE [view |-> rd.mask,
              slice |-> _get_module_slice(rd.mask.base.shape[1], rd.mask.base.shape[2],
                                          i, geometry)],
     module_g |->
        IF rd.g = None THEN None
        ELSE [view |-> rd.g,
              slice |-> _get_module_slice(rd.g.base.shape[2], rd.g.base.shape[3], i, geometry)],
     module_p |->
        IF rd.p = None THEN None
        ELSE [view |-> rd.p,
              slice |-> _get_module_slice(rd.p.base.shape[2], rd.p.base.shape[3], i, geometry)]]

\* the kernel _correct indexes the tables by the gain bits of the pixel (line 661):
\* with a table of one stage, read after highgain was set during the call, the
\* stages 1 to 3 lie beyond the table, and the compiled kernel checks no index
Beyond(rd, images, i, geometry, f, q) ==
    LET a == PassArgs(rd, images, i, geometry)
        src == SliceSrc(a.module, q[1], q[2])
        raw == ArrAt(images, <<f, src[1], src[2]>>)
        ms == SliceSrc(a.module_mask.slice, q[1], q[2])
    IN  /\ rd.proc_func \in {"_correct", "_correct_parallel"}
        /\ a.module_g # None /\ a.module_p # None
        /\ ~(a.module_mask # None /\ MaskAt(rd.mask, ms[1], ms[2]))
        /\ \/ raw \div 16384 >= Len(rd.g.planes)
           \/ raw \div 16384 >= Len(rd.p.planes)

\* what the kernel writes for a pixel whose table entry it reads beyond the
\* table: the word there is whatever the memory holds, and (val - pedestal) * gain
\* with it is any float32, none in particular
AnyFloat32 == [any |-> "float32"]

\* the pixels q of the module that the pass for entry i writes at d
PassHits(rd, images, i, gap_pixels, geometry, d) ==
    LET o == _get_final_module_coordinates(rd.module_map[i + 1], i, geometry, gap_pixels)
    IN  {q \in KernelPix(PassArgs(rd, images, i, geometry).module) :
            LET r == KernelDest(q[1], q[2], gap_pixels)
            IN  <<o[1] + r[1], o[2] + r[2]>> = <<d[2], d[3]>>}

\* one pixel of every chip of a module, off the chip edges, and the probe pixels:
\* the images hold one raw word for a chip of a frame
ChipPix ==
    ProbePix \cup {<<cy * CHIP_SIZE_Y + 100, cx * CHIP_SIZE_X + 44>> :
                      cy \in 0..(CHIP_NUM_Y - 1), cx \in 0..(CHIP_NUM_X - 1)}

\* the pass for entry i reads beyond a table for some pixel of its module slice,
\* whether the place it writes for that pixel is an observed one or not
ReadsBeyond(rd, images, i, geometry) ==
    LET module == PassArgs(rd, images, i, geometry).module
    IN  \E f \in 0..(images.shape[1] - 1), q \in ChipPix :
           /\ q[1] < module.size_y /\ q[2] < module.size_x
           /\ Beyond(rd, images, i, geometry, f, q)

\* the kernel writes res[i1, ri2, ri3] for every pixel of the module (lines
\* 655-662) and checks no index: a pixel whose place lies outside module_res,
\* cut from a res that was sized by another module map than the loop goes over
WritesBeyond(res, rd, images, i, gap_pixels, geometry) ==
    LET o == _get_final_module_coordinates(rd.module_map[i + 1], i, geometry, gap_pixels)
    IN  \E q \in KernelPix(PassArgs(rd, images, i, geometry).module) :
           LET r == KernelDest(q[1], q[2], gap_pixels)
           IN  o[1] + r[1] >= res.shape[2] \/ o[2] + r[2] >= res.shape[3]

\* res after the kernel call of the pass for entry i
_process_pass(res, rd, images, i, gap_pixels, geometry) ==
    LET a == PassArgs(rd, images, i, geometry)
    IN  [res EXCEPT !.data =
            [d \in DOMAIN res.data |->
                LET hit == PassHits(rd, images, i, gap_pixels, geometry, d)
                    q == CHOOSE h \in hit : TRUE
                IN  IF hit = {} THEN res.data[d]
                    ELSE IF Beyond(rd, images, i, geometry, d[1], q) THEN AnyFloat32
                    ELSE CallProcFunc(rd.proc_func, res.dtype, images, a.module,
                                     a.module_g, a.module_p, a.module_mask,
                                     d[1], q[1], q[2])]]

\* the call has not returned yet
InLoop == [status |-> "running"]

\* the flags gap_pixels and geometry, and the images, of the calls run step by step
ConcPlacements == {<<FALSE, FALSE>>, <<TRUE, FALSE>>, <<TRUE, TRUE>>}

ConcImages == {Arr("I1", "uint16", <<1>> \o _shape_in)}

\* what thread A holds before it has read anything
NoReads ==
    [module_map |-> <<>>, proc_func |-> "", key |-> FALSE, n |-> 0,
     mask |-> None, g |-> None, p |-> None]

\* the two threads when B is in an operation and A has not called process yet
NotCalled ==
    [pc |-> "out", args |-> None, i |-> 0, res |-> None, rd |-> NoReads,
     before |-> None, reads |-> {}, assigned |-> <<>>, writes |-> <<>>]

\* the places of a call between its entry and the loop of _process
EntryPcs ==
    {"gain", "pedestal", "mask_flag", "mask_check", "shape_out", "shape_out_n",
     "func1", "func2", "func3", "func4", "map"}

\* where the call goes after the checks of conversion (line 463)
AfterConvert(mask) == IF mask THEN "mask_flag" ELSE "shape_out"

\* the call of process up to line 459: the shape of the images against
\* self._shape_in, which reads self.module_map, and the return of the images
\* when no flag is set
ProcessCall ==
    /\ UNCHANGED calib
    /\ Running \/ proc.pc = "out"
    /\ Cardinality({k \in DOMAIN _module_map : _module_map[k] # -1}) <= MaxConcModules
    /\ \E images \in ConcImages, conversion \in BOOLEAN, mask \in BOOLEAN,
          place \in ConcPlacements, parallel \in ParallelValues :
        LET gap_pixels == place[1]
            geometry == place[2]
            stack == newaxis(images)
            args == [op |-> "process", images |-> images, conversion |-> conversion,
                     mask |-> mask, gap_pixels |-> gap_pixels, geometry |-> geometry,
                     parallel |-> parallel]
            base == IF proc = Idle THEN NotCalled ELSE proc
        IN  /\ UNCHANGED handler
            /\ call' = args
            /\ IF <<stack.shape[2], stack.shape[3]>> # _shape_in
               THEN /\ ret' = Raised("ValueError", "image shape")
                    /\ proc' = [base EXCEPT !.pc = "done", !.args = args]
               ELSE IF ~(conversion \/ mask \/ gap_pixels \/ geometry)
               THEN /\ ret' = allow_2darray_out(images, Returned(stack))
                    /\ proc' = [base EXCEPT !.pc = "done", !.args = args]
               ELSE /\ ret' = InLoop
                    /\ proc' = [base EXCEPT
                                   !.pc = IF conversion THEN "gain" ELSE AfterConvert(mask),
                                   !.args = args]

\* can_convert (line 463): self.gain, and self.pedestal when the gain is set
ProcessCanConvert ==
    /\ proc.pc \in {"gain", "pedestal"}
    /\ IF (IF proc.pc = "gain" THEN _gain ELSE _pedestal) = None
       THEN /\ ret' = Raised("RuntimeError", "Gain and/or pedestal values are not set.")
            /\ proc' = [proc EXCEPT !.pc = "done"]
       ELSE /\ proc' = [proc EXCEPT
                           !.pc = IF proc.pc = "gain" THEN "pedestal"
                                  ELSE AfterConvert(proc.args.mask)]
            /\ UNCHANGED ret
    /\ UNCHANGED <<handler, call, calib>>

\* self._mask is None (line 466): self.mask_double_pixels, then the entry of
\* self._mask_all for it
ProcessCheckMask ==
    /\ proc.pc \in {"mask_flag", "mask_check"}
    /\ IF proc.pc = "mask_flag"
       THEN /\ proc' = [proc EXCEPT !.rd.key = _mask_double_pixels, !.pc = "mask_check"]
            /\ UNCHANGED ret
       ELSE IF _mask_all[proc.rd.key] = None
       THEN /\ ret' = Raised("RuntimeError", "Pixel mask values are not set.")
            /\ proc' = [proc EXCEPT !.pc = "done", !.rd.key = FALSE]
       ELSE /\ proc' = [proc EXCEPT !.pc = "shape_out", !.rd.key = FALSE]
            /\ UNCHANGED ret
    /\ UNCHANGED <<handler, call, calib>>

\* get_shape_out reads self.module_map a second time when it adds the gaps
\* of every module to the rows (lines 143-150)
ShapeOutReadsTwice(gap_pixels, geometry) == ~is_stripsel /\ ~geometry /\ gap_pixels

\* lines 473-475: get_shape_out, which reads self.module_map for self._shape_in
\* and once more for self._number_active_modules, get_dtype_out and np.zeros
ProcessShapeOut ==
    /\ proc.pc \in {"shape_out", "shape_out_n"}
    /\ LET images == newaxis(proc.args.images)
           conversion == proc.args.conversion
           gap_pixels == process_gap(proc.args.gap_pixels)
           geometry == proc.args.geometry
           n == CountActive(_module_map)
           shape_in == _get_shape_n_modules(IF proc.pc = "shape_out" THEN n ELSE proc.rd.n)
           res_shape == <<images.shape[1]>>
                            \o get_shape_out_reads(shape_in, n, gap_pixels, geometry)
       IN  IF proc.pc = "shape_out" /\ ShapeOutReadsTwice(gap_pixels, geometry)
           THEN /\ proc' = [proc EXCEPT !.rd.n = n, !.pc = "shape_out_n"]
                /\ UNCHANGED ret
           ELSE IF get_dtype_out_raises(images.dtype, conversion)
           THEN /\ ret' = Raised("TypeError", "Only images of type uint16 can be converted.")
                /\ proc' = [proc EXCEPT !.pc = "done", !.rd.n = 0]
           ELSE /\ proc' = [proc EXCEPT
                               !.pc = "func1", !.rd.n = 0,
                               !.res = zeros(res_shape,
                                             get_dtype_out(images.dtype, conversion),
                                             Obs(res_shape, gap_pixels, geometry))]
                /\ UNCHANGED ret
    /\ UNCHANGED <<handler, call, calib>>

\* _proc_func (lines 622-631): each of its four conditions reads self.highgain;
\* when none of them holds the name proc_func is unbound at the return
ProcessProcFunc ==
    /\ proc.pc \in {"func1", "func2", "func3", "func4"}
    /\ LET parallel == proc.args.parallel
           found == CASE proc.pc = "func1" -> ~_highgain /\ ~parallel
                      [] proc.pc = "func2" -> ~_highgain /\ parallel
                      [] proc.pc = "func3" -> _highgain /\ ~parallel
                      [] proc.pc = "func4" -> _highgain /\ parallel
           proc_func == CASE proc.pc = "func1" -> "_correct"
                          [] proc.pc = "func2" -> "_correct_parallel"
                          [] proc.pc = "func3" -> "_correct_highgain"
                          [] proc.pc = "func4" -> "_correct_highgain_parallel"
           next == CASE proc.pc = "func1" -> "func2"
                     [] proc.pc = "func2" -> "func3"
                     [] proc.pc = "func3" -> "func4"
                     [] proc.pc = "func4" -> "done"
       IN  IF found
           THEN /\ proc' = [proc EXCEPT !.rd.proc_func = proc_func, !.pc = "map"]
                /\ UNCHANGED ret
           ELSE /\ proc' = [proc EXCEPT !.pc = next]
                /\ IF next = "done"
                   THEN ret' = Raised("UnboundLocalError",
                                      "cannot access local variable 'proc_func'")
                   ELSE UNCHANGED ret
    /\ UNCHANGED <<handler, call, calib>>

\* self.module_map, which the loop of _process goes over (line 501)
ProcessModuleMap ==
    /\ proc.pc = "map"
    /\ LET i0 == NextEntry(_module_map, 0)
       IN  proc' = [proc EXCEPT
                       !.rd.module_map = _module_map,
                       !.i = i0,
                       !.pc = AfterPass(_module_map, i0, proc.args.conversion,
                                        proc.args.mask)]
    /\ UNCHANGED <<handler, call, ret, calib>>

\* self.mask_double_pixels or self.highgain, read by the property _mask, _g or _p
ProcessReadFlag ==
    /\ proc.pc \in {"mask", "g", "p"}
    /\ proc' = [proc EXCEPT
                   !.rd.key = IF proc.pc = "mask" THEN _mask_double_pixels ELSE _highgain,
                   !.pc = CASE proc.pc = "mask" -> "mask_all"
                            [] proc.pc = "g" -> "g_all"
                            [] proc.pc = "p" -> "p_all"]
    /\ UNCHANGED <<handler, call, ret, calib>>

\* the entry of self._mask_all, self._g_all or self._p_all for the flag read, and
\* its slice for the module: the wrapper of _get_module_slice asks for array.ndim
\* (line 31) and raises on an entry that is None, which a setter that has written
\* self._gain, self._pedestal or self._pixel_mask has not filled yet
ProcessReadTable ==
    /\ proc.pc \in {"mask_all", "g_all", "p_all"}
    /\ LET table == CASE proc.pc = "mask_all" -> _mask_all[proc.rd.key]
                      [] proc.pc = "g_all" -> _g_all[proc.rd.key]
                      [] proc.pc = "p_all" -> _p_all[proc.rd.key]
       IN  IF table = None
           THEN /\ ret' = Raised("AttributeError", "'NoneType' object has no attribute 'ndim'")
                /\ proc' = [proc EXCEPT !.pc = "done", !.rd.key = FALSE]
           ELSE /\ proc' =
                      CASE proc.pc = "mask_all" ->
                             [proc EXCEPT !.rd.mask = table, !.rd.key = FALSE,
                                          !.pc = IF proc.args.conversion THEN "g" ELSE "call"]
                        [] proc.pc = "g_all" ->
                             [proc EXCEPT !.rd.g = table, !.rd.key = FALSE, !.pc = "p"]
                        [] proc.pc = "p_all" ->
                             [proc EXCEPT !.rd.p = table, !.rd.key = FALSE, !.pc = "call"]
                /\ UNCHANGED ret
    /\ UNCHANGED <<handler, call, calib>>

\* the kernel call of one pass; a read beyond a table gives any value at every
\* pixel it is made for, a write beyond res lands in memory that is not res, and
\* either may be the fault that ends the interpreter
ProcessPass ==
    /\ proc.pc = "call"
    /\ LET images == newaxis(proc.args.images)
           gap_pixels == process_gap(proc.args.gap_pixels)
           geometry == proc.args.geometry
           beyond == ReadsBeyond(proc.rd, images, proc.i, geometry)
           outside == WritesBeyond(proc.res, proc.rd, images, proc.i, gap_pixels, geometry)
           next == NextEntry(proc.rd.module_map, proc.i + 1)
       IN  \E fault \in IF ~beyond /\ ~outside THEN {FALSE} ELSE BOOLEAN :
              IF fault
              THEN /\ proc' = [proc EXCEPT !.pc = "done"]
                   /\ ret' = Raised("SIGSEGV", "access beyond an array")
              ELSE /\ proc' = [proc EXCEPT
                                  !.i = next,
                                  !.pc = AfterPass(proc.rd.module_map, next,
                                                   proc.args.conversion, proc.args.mask),
                                  !.res = _process_pass(@, proc.rd, images, proc.i,
                                                        gap_pixels, geometry),
                                  !.reads = @ \cup {[mask |-> proc.rd.mask, g |-> proc.rd.g,
                                                     p |-> proc.rd.p]}]
                   /\ UNCHANGED ret
    /\ UNCHANGED <<handler, call, calib>>

\* the loop is over: process returns
ProcessExit ==
    /\ UNCHANGED calib
    /\ proc.pc = "loop"
    /\ proc.i = Len(proc.rd.module_map)
    /\ ret' = allow_2darray_out(proc.args.images, process_exit(proc.res, proc.args.geometry))
    /\ proc' = [proc EXCEPT !.pc = "done"]
    /\ UNCHANGED <<handler, call>>

\* thread B may begin an operation: it is in no setter, and A has not called
\* process or is in the call
OtherMay ==
    \/ Running
    \/ /\ proc.pc \in EntryPcs \cup LoopPcs
       /\ proc.writes = <<>>
       /\ Len(proc.assigned) < MaxAssigned

\* thread B enters a setter and runs it up to its first write
Begin(op, value, writes) ==
    LET base == IF proc = Idle THEN NotCalled ELSE proc
    IN  /\ proc' = [base EXCEPT
                       !.assigned = Append(@, [op |-> op, value |-> value]),
                       !.writes = IF writes = <<>> THEN <<>> ELSE Tail(writes),
                       !.before = IF base.assigned = <<>> THEN PassReads(TRUE, TRUE) ELSE @]
        /\ IF writes = <<>> THEN UNCHANGED handler ELSE Write(Head(writes))
        /\ UNCHANGED <<call, ret, calib>>

AssignGain ==
    /\ OtherMay
    /\ \E value \in {Arr("GB", "float64", <<4>> \o _shape_full)} :
          Begin("gain", value, gain_writes(value))

AssignPedestal ==
    /\ OtherMay
    /\ \E value \in {Arr("PB", "float64", <<4>> \o _shape_full)} :
          Begin("pedestal", value, pedestal_writes(value))

AssignPixelMask ==
    /\ OtherMay
    /\ \E value \in {Arr("M0", "uint32", _shape_full)} :
          Begin("pixel_mask", value, pixel_mask_writes(value))

AssignHighgain ==
    /\ OtherMay
    /\ \E value \in {~_highgain} : Begin("highgain", value, highgain_writes(value))

AssignMaskDoublePixels ==
    /\ OtherMay
    /\ \E value \in {~_mask_double_pixels} :
          Begin("mask_double_pixels", value, mask_double_pixels_writes(value))

\* the module map of the modules 0 .. k - 1
FirstModules(k) ==
    [seq |-> [j \in 1..detector_name.n_modules |-> IF j <= k THEN j - 1 ELSE -1]]

\* the module maps thread B assigns, of at most MaxConcModules enabled entries:
\* as many modules as that allows (None when these are all), and one fewer
OtherModuleMaps ==
    LET n == detector_name.n_modules
        top == Min(n, MaxConcModules)
    IN  {IF top = n THEN None ELSE FirstModules(top), FirstModules(top - 1)}

AssignModuleMap ==
    /\ OtherMay
    /\ \E value \in OtherModuleMaps : Begin("module_map", value, module_map_writes(value))

AssignGainFile ==
    /\ OtherMay
    /\ \E filepath \in {"gains.h5"} : Begin("gain_file", filepath, gain_file_writes(filepath))

AssignPedestalFile ==
    /\ OtherMay
    /\ \E filepath \in {"pedestal.h5"} :
          Begin("pedestal_file", filepath, pedestal_file_writes(filepath))

\* the next write of the setter thread B is in
AssignWrite ==
    /\ proc # Idle
    /\ proc.writes # <<>>
    /\ Write(Head(proc.writes))
    /\ proc' = [proc EXCEPT !.writes = Tail(@)]
    /\ UNCHANGED <<call, ret, calib>>

\* handlers of at most MaxConcModules enabled modules: as many as that, and none
ConcModuleMaps == {FirstModules(MaxConcModules), FirstModules(0)}

NextConc ==
    \/ SetGain({Arr("GA", "float64", <<4>> \o _shape_full)})
    \/ SetPedestal({Arr("PA", "float64", <<4>> \o _shape_full)})
    \/ SetPixelMask({Arr("M1", "uint32", _shape_full)})
    \/ SetModuleMap(ConcModuleMaps)
    \/ ProcessCall
    \/ ProcessCanConvert
    \/ ProcessCheckMask
    \/ ProcessShapeOut
    \/ ProcessProcFunc
    \/ ProcessModuleMap
    \/ ProcessReadFlag
    \/ ProcessReadTable
    \/ ProcessPass
    \/ ProcessExit
    \/ AssignGain
    \/ AssignPedestal
    \/ AssignPixelMask
    \/ AssignHighgain
    \/ AssignMaskDoublePixels
    \/ AssignModuleMap
    \/ AssignGainFile
    \/ AssignPedestalFile
    \/ AssignWrite

\* the handlers the two threads are run on: one of one module, one of many
InitConc == Init /\ detector_name \in {JF03T01V01, JF06T32V01}

SpecConc == InitConc /\ [][NextConc]_vars

---------------------------------------------------------------------------
(* Properties *)

---------------------------------------------------------------------------
(* process(parallel=True).  The parallel kernels run the frames of a       *)
(* module as units of a prange loop, in any order; a call of the kernel    *)
(* returns when all its units are done, and then the loop of _process goes *)
(* to the next module whose entry is not -1.  A step is one unit: one      *)
(* frame of one module.                                                    *)

MaxParFrames == 2

\* a stack of MaxParFrames images of the shape the handler expects
ParImagesValues == {Arr("I1", "uint16", <<MaxParFrames>> \o _shape_in)}

\* a unit writing into frame 0 of res whatever frame it reads
_correct_parallel_unit_frame0(res, images, i, f, conversion, mask, gap_pixels, geometry) ==
    LET o == OriginOf(i, geometry, gap_pixels)
        hit(d) == {q \in KernelPix(ModuleOf(images, i, geometry)) :
                      LET r == KernelDest(q[1], q[2], gap_pixels)
                      IN  <<o[1] + r[1], o[2] + r[2]>> = <<d[2], d[3]>>}
    IN  [res EXCEPT !.data =
            [d \in DOMAIN res.data |->
                IF d[1] # 0 \/ hit(d) = {} THEN res.data[d]
                ELSE _process_module(res.dtype, images, i, conversion, mask, gap_pixels,
                                     geometry, TRUE, f, CHOOSE q \in hit(d) : TRUE)]]

\* res after the unit i1 = f of the parallel kernel called for entry i of the
\* module map: the unit writes res[f, ri2, ri3] only, and no observed place when
\* its module_res does not start at an observed origin
_correct_parallel_unit(res, images, i, f, conversion, mask, gap_pixels, geometry) ==
    LET o == OriginOf(i, geometry, gap_pixels)
        hit(d) == {q \in KernelPix(ModuleOf(images, i, geometry)) :
                      LET r == KernelDest(q[1], q[2], gap_pixels)
                      IN  <<o[1] + r[1], o[2] + r[2]>> = <<d[2], d[3]>>}
    IN  IF o \notin ObservedOrigins(gap_pixels, geometry) THEN res
        ELSE [res EXCEPT !.data =
            [d \in DOMAIN res.data |->
                IF d[1] # f \/ hit(d) = {} THEN res.data[d]
                ELSE _process_module(res.dtype, images, i, conversion, mask, gap_pixels,
                                     geometry, TRUE, f, CHOOSE q \in hit(d) : TRUE)]]

\* the first entry from i on that is not -1, or the length of the module map
NextModule(i) ==
    LET left == {j \in i..(Len(_module_map) - 1) : _module_map[j + 1] # -1}
    IN  IF left = {} THEN Len(_module_map) ELSE CHOOSE j \in left : \A k \in left : j <= k

\* the units of a call of the kernel: the frames of the stack
ParUnits(images) == 0..(images.shape[1] - 1)

\* process(parallel=True) from its entry to the loop of _process, or to its end
ParEnter ==
    /\ UNCHANGED calib
    /\ \E images \in ParImagesValues, conversion \in BOOLEAN, mask \in BOOLEAN,
       gap_pixels \in BOOLEAN, geometry \in BOOLEAN :
        LET entry == process_entry(newaxis(images), conversion, mask, gap_pixels, geometry)
            args == [op |-> "process", images |-> images, conversion |-> conversion,
                     mask |-> mask, gap_pixels |-> gap_pixels, geometry |-> geometry,
                     parallel |-> TRUE]
        IN  /\ Running
            /\ UNCHANGED handler
            /\ IF entry # None
               THEN /\ call' = args
                    /\ ret' = allow_2darray_out(images, entry)
                    /\ UNCHANGED proc
               ELSE /\ call' = args
                    /\ ret' = [status |-> "running"]
                    /\ proc' = [pc |-> "par", args |-> args, i |-> NextModule(0),
                                todo |-> ParUnits(newaxis(images)),
                                res |-> process_res(newaxis(images), conversion,
                                                    gap_pixels, geometry)]

\* one unit of the kernel called for the module the loop is at; after the last
\* one the kernel returns and the loop goes on
ParUnit ==
    /\ UNCHANGED calib
    /\ proc.pc = "par"
    /\ proc.i < Len(_module_map)
    /\ \E f \in proc.todo :
          LET res == _correct_parallel_unit(proc.res, newaxis(proc.args.images), proc.i, f,
                                            proc.args.conversion, proc.args.mask,
                                            process_gap(proc.args.gap_pixels),
                                            proc.args.geometry)
          IN  proc' = IF proc.todo = {f}
                      THEN [proc EXCEPT !.res = res, !.i = NextModule(proc.i + 1),
                                        !.todo = ParUnits(newaxis(proc.args.images))]
                      ELSE [proc EXCEPT !.res = res, !.todo = @ \ {f}]
    /\ UNCHANGED <<handler, call, ret>>

\* the loop is over: process returns
ParExit ==
    /\ UNCHANGED calib
    /\ proc.pc = "par"
    /\ proc.i = Len(_module_map)
    /\ ret' = allow_2darray_out(proc.args.images, process_exit(proc.res, proc.args.geometry))
    /\ proc' = [proc EXCEPT !.pc = "done"]
    /\ UNCHANGED <<handler, call>>

NextPar ==
    \/ SetGain({Arr("GA", "float64", <<4>> \o _shape_full)})
    \/ SetPedestal({Arr("PA", "float64", <<4>> \o _shape_full)})
    \/ SetPixelMask(PixelMaskArrays)
    \/ SetHighgain
    \/ ParEnter
    \/ ParUnit
    \/ ParExit

SpecPar == Init /\ [][NextPar]_vars

(* What the claims below speak of, said without the operators of process.   *)

ProcessCalled == call.op = "process"

SomeFlag == call.conversion \/ call.mask \/ call.gap_pixels \/ call.geometry

\* the entries of the module map that are not -1
Enabled == {k \in DOMAIN _module_map : _module_map[k] # -1}

\* the last two dimensions of the images of the call are the raw shape the
\* module map implies
ShapeValid ==
    LET shape == call.images.shape
    IN  <<shape[Len(shape) - 1], shape[Len(shape)]>> = <<512 * Cardinality(Enabled), 1024>>

ShapeError == Raised("ValueError", "image shape")

NotSetError == Raised("RuntimeError", "Gain and/or pedestal values are not set.")

\* the frames of the images of the call
Frames == IF ndim(call.images) = 2 THEN {0} ELSE 0..(call.images.shape[1] - 1)

\* the output of the call holds an observed value for frame f at p
InOut(f, p) == <<f, p[1], p[2]>> \in DOMAIN ret.value.data

Out(f, p) == ret.value.data[<<f, p[1], p[2]>>]

\* where the output of the call holds what _process put at (y, x): the output
\* of JF06T32V01 with geometry is turned by 90 degrees
Placed(y, x) ==
    IF call.geometry /\ detector_name.id = 6
    THEN <<get_shape_out(call.gap_pixels, TRUE)[2] - 1 - x, y>>
    ELSE <<y, x>>

\* where the output holds the place at offset off of the block of module i when
\* every module is in its own slot
HomeAt(i, off) ==
    LET o == _get_final_module_coordinates(i, i, call.geometry, call.gap_pixels)
    IN  Placed(o[1] + off[1], o[2] + off[2])

\* where it holds pixel q of module i then
HomeOf(i, q) == HomeAt(i, KernelDest(q[1], q[2], call.gap_pixels))

\* r decoded and calibrated with the entries at (y, x) of the tables assigned;
\* stage 3 of the table the handler keeps for the normal mode is its stage 2
Decoded(r, y, x) ==
    LET stage == r \div 16384
        magnitude == r % 16384
        k == IF stage = 3 THEN 2 ELSE stage
    IN  Mul32(magnitude - ArrAt(_pedestal, <<k, y, x>>), Inv32(ArrAt(_gain, <<k, y, x>>)))

\* pixel q of frame f of module i, read from slot m of the images and treated
\* with the entries of module i of the mask and the tables, in the normal mode
Calibrated(f, i, m, q) ==
    LET r == ArrAt(call.images, <<f, m * 512 + q[1], q[2]>>)
        y == i * 512 + q[1]
        x == q[2]
    IN  IF call.mask /\ MaskAt(_mask, y, x)
        THEN (IF call.conversion THEN <<0, 0>> ELSE 0)
        ELSE IF call.conversion THEN Decoded(r, y, x)
        ELSE r

\* the stepwise call of process returns what process gives in one piece when no
\* assignment came in between
StepwiseAgrees ==
    (proc.pc = "done" /\ proc.assigned = <<>>) =>
        ret = process(proc.args.images, proc.args.conversion, proc.args.mask,
                      proc.args.gap_pixels, proc.args.geometry, proc.args.parallel)

(* C1: when a gain, pedestal or pixel_mask assignment interleaves with a   *)
(* call of process in another thread, all the views the passes of that     *)
(* call read are the ones from before the assignment, or all are the ones  *)
(* from after it.                                                          *)
C1_ReadsOldOrNew ==
    (/\ proc.pc = "done"
     /\ Len(proc.assigned) = 1
     /\ proc.assigned[1].op \in {"gain", "pedestal", "pixel_mask"}
     /\ proc.writes = <<>>) =>
        \/ \A r \in proc.reads :
              r = AskedOf(proc.before, proc.args.conversion, proc.args.mask)
        \/ \A r \in proc.reads :
              r = PassReads(proc.args.conversion, proc.args.mask)

(* C2: after any sequence of gain and pedestal assignments, rejected ones  *)
(* among them, the stored gain (pedestal) is unset exactly when the last   *)
(* assignment the setter took was None, can_convert is true exactly when   *)
(* the stored gain and the stored pedestal are both set, and               *)
(* process(conversion=True) on images of the right shape raises its "not   *)
(* set" error, giving no output, exactly when they are not both set.       *)
C2_NotSetIffCannotConvert ==
    /\ can_convert <=> (_gain # None /\ _pedestal # None)
    /\ (call.op = "gain" /\ ret.status = "ok") => (_gain = None <=> call.value = None)
    /\ (call.op = "pedestal" /\ ret.status = "ok") =>
           (_pedestal = None <=> call.value = None)
    /\ (ProcessCalled /\ call.conversion /\ ShapeValid) =>
           (ret = NotSetError <=> ~(_gain # None /\ _pedestal # None))

\* process(conversion=True) raises after a gain was assigned and then reset
C2_Witness ==
    /\ ProcessCalled /\ call.conversion /\ ShapeValid
    /\ ret = NotSetError
    /\ _gain = None /\ _g_all[FALSE] # None
    /\ _pedestal # None

(* C3: process(mask=True) fails whenever pixel_mask is None, also after a  *)
(* mask was assigned and then reset to None, directly or through an empty  *)
(* pedestal_file.                                                          *)
C3_UnsetMaskFails ==
    (ProcessCalled /\ call.mask /\ _pixel_mask = None) => ret.status # "ok"

\* a call of a setter with a value the setter must reject
Rejected(c) ==
    /\ c.op \in {"gain", "pedestal", "pixel_mask", "module_map"}
    /\ c.value # None
    /\ CASE c.op \in {"gain", "pedestal"} ->
                c.value.shape # <<4, 512 * detector_name.n_modules, 1024>>
         [] c.op = "pixel_mask" ->
                c.value.shape # <<512 * detector_name.n_modules, 1024>>
         [] c.op = "module_map" ->
                \/ Len(c.value.seq) # detector_name.n_modules
                \/ \E k \in DOMAIN c.value.seq :
                      c.value.seq[k] < -1 \/ c.value.seq[k] > detector_name.n_modules - 1

(* C4: a gain, pedestal, pixel_mask or module_map assignment of a value    *)
(* the setter must reject raises and changes no field of the handler.      *)
C4_RejectedLeavesHandler ==
    [][Rejected(call') => (ret'.status = "ValueError" /\ handler' = handler)]_vars

\* a module map was rejected on a handler that holds tables, a mask and a
\* module map of its own
C4_Witness ==
    /\ Rejected(call) /\ call.op = "module_map"
    /\ ret.status = "ValueError"
    /\ _gain # None /\ _pedestal # None /\ _pixel_mask # None
    /\ _module_map # arange(detector_name.n_modules)

(* C5: process raises the shape error, whatever the flags and whatever     *)
(* else is set, exactly when the last two dimensions of the images are not *)
(* (512 * number of entries of the module map that are not -1, 1024).      *)
C5_ShapeErrorFirst ==
    ProcessCalled => (ret = ShapeError <=> ~ShapeValid)

\* the shape error came first: conversion was asked for with no gain set, and a
\* module is disabled
C5_Witness ==
    /\ ProcessCalled /\ ret = ShapeError
    /\ call.conversion /\ call.mask /\ _gain = None /\ _pixel_mask = None
    /\ Cardinality(Enabled) < detector_name.n_modules

(* C6: with conversion, mask, gap_pixels and geometry all false and images *)
(* of the right shape, process returns the images as they are and leaves   *)
(* the handler as it was.                                                  *)
C6_IdentityFastPath ==
    [][(call'.op = "process"
            /\ ~(call'.conversion \/ call'.mask \/ call'.gap_pixels \/ call'.geometry)
            /\ ShapeValid')
        => (ret' = Returned(call'.images) /\ handler' = handler)]_vars

\* the images came back from a handler with no tables and no mask, one module
\* disabled
C6_Witness ==
    /\ ProcessCalled /\ ~SomeFlag
    /\ ret = Returned(call.images)
    /\ _gain = None /\ _pedestal = None /\ _pixel_mask = None
    /\ Cardinality(Enabled) = detector_name.n_modules - 1
    /\ detector_name.n_modules > 1

(* C7: the module_map setter takes None, which stores 0..n-1, and a        *)
(* sequence of n values all in -1..n-1, which it stores as given, also     *)
(* when a value occurs twice; it raises for every other value.             *)
C7_ModuleMapAccepts ==
    call.op = "module_map" =>
        LET n == detector_name.n_modules
        IN  IF call.value = None
            THEN ret.status = "ok" /\ _module_map = [k \in 1..n |-> k - 1]
            ELSE IF /\ Len(call.value.seq) = n
                    /\ \A k \in 1..n : call.value.seq[k] \in -1..(n - 1)
            THEN ret.status = "ok" /\ _module_map = call.value.seq
            ELSE ret.status = "ValueError"

\* a module map with a slot named twice was taken
C7_Witness ==
    /\ call.op = "module_map" /\ call.value # None
    /\ ret.status = "ok"
    /\ _module_map = call.value.seq
    /\ \E j, k \in DOMAIN _module_map :
          j # k /\ _module_map[j] = _module_map[k] /\ _module_map[j] # -1

\* no two enabled entries of the module map name the same slot
NoSlotTwice == \A j, k \in Enabled : _module_map[j] = _module_map[k] => j = k

\* one entry of the module map is -1
OneDisabled == Cardinality(DOMAIN _module_map \ Enabled) = 1

\* the block of the disabled module is zero, and every other module is where
\* it is with no module disabled, treated with its own table entries
DisabledOnly ==
    \A f \in Frames, i \in ObservedBlockIds :
        IF _module_map[i + 1] = -1
        THEN \A off \in BlockOffsets(call.gap_pixels) :
                 /\ InOut(f, HomeAt(i, off))
                 /\ Out(f, HomeAt(i, off)) = (IF call.conversion THEN <<0, 0>> ELSE 0)
        ELSE \A q \in ProbePix :
                 /\ InOut(f, HomeOf(i, q))
                 /\ Out(f, HomeOf(i, q)) = Calibrated(f, i, _module_map[i + 1], q)

(* C8, as claimed: for a module map with one entry -1, the output region   *)
(* of that module is zero in every frame and every other module is         *)
(* calibrated and placed as with no module disabled.                       *)
C8_DisabledModuleOnly ==
    (ProcessCalled /\ ret.status = "ok" /\ SomeFlag /\ ~_highgain /\ OneDisabled)
        => DisabledOnly

\* the same for the calls with geometry=True alone, where every module has its
\* own place in the output: a module whose slot lies beyond the input is left zero
DisabledOnlyWithGeometry ==
    (ProcessCalled /\ ret.status = "ok" /\ call.geometry /\ ~_highgain /\ OneDisabled)
        => DisabledOnly

\* one entry is -1 and the others name the slots 0, 1, ... in order
CompactOneDisabled ==
    \E j \in DOMAIN _module_map :
        \A k \in DOMAIN _module_map :
            _module_map[k] = IF k < j THEN k - 1 ELSE IF k = j THEN -1 ELSE k - 2

\* with geometry=True and the enabled modules stacked in the input without a
\* hole, the disabled block is zero and every other module is in its place
CompactDisabledOnly ==
    (ProcessCalled /\ ret.status = "ok" /\ call.geometry /\ ~_highgain
        /\ CompactOneDisabled)
        => DisabledOnly

\* module 31 of the map [0, -1, 2, ..., 31] was left zero by a call with geometry
LastModuleLeftZero ==
    /\ ProcessCalled /\ ret.status = "ok" /\ call.geometry /\ call.conversion
    /\ ~_highgain /\ OneDisabled
    /\ Len(_module_map) = 32 /\ _module_map[2] = -1 /\ _module_map[32] = 31
    /\ \A f \in Frames, q \in ProbePix :
          InOut(f, HomeOf(31, q)) /\ Out(f, HomeOf(31, q)) = <<0, 0>>

\* the mask in use marks one pixel
OneMasked == _mask # None /\ _mask.base.name \in {"M1", "ML"} /\ ~_mask.edges

\* the place p lies in the frames of the output
InShape(p) ==
    LET shape == ret.value.shape
    IN  p[1] < shape[Len(shape) - 1] /\ p[2] < shape[Len(shape)]

\* the place the marked pixel of the mask goes to, if its module is enabled, lies
\* in the output, and the output is zero there (where that place is observed)
MaskedIsZero ==
    LET P == MaskPix(_mask.base.name, detector_name.n_modules)
        i == P[1] \div 512
        q == <<P[1] % 512, P[2]>>
        o == _get_final_module_coordinates(_module_map[i + 1], i, call.geometry,
                                           call.gap_pixels)
        r == KernelDest(q[1], q[2], call.gap_pixels)
        at == Placed(o[1] + r[1], o[2] + r[2])
    IN  _module_map[i + 1] # -1 =>
            /\ InShape(at)
            /\ \A f \in Frames : InOut(f, at) => Out(f, at) = <<0, 0>>

(* C9, as claimed: for a pixel mask with one true entry,                   *)
(* process(conversion=True, mask=True) gives 0 where that pixel goes in    *)
(* the output, whatever the input and the geometry and gap_pixels flags.   *)
C9_MaskedPixelZero ==
    (ProcessCalled /\ ret.status = "ok" /\ call.conversion /\ call.mask /\ OneMasked)
        => MaskedIsZero

\* the same for the module maps that name no slot twice: the marked pixel of a
\* module whose slot lies beyond the input has no place in the output
MaskedPixelZeroNoSlotTwice ==
    (ProcessCalled /\ ret.status = "ok" /\ call.conversion /\ call.mask /\ OneMasked
        /\ NoSlotTwice)
        => MaskedIsZero

\* and for the maps whose enabled entries name each of the slots of the input
\* once, where it holds
MaskedPixelZeroWholeMaps ==
    (ProcessCalled /\ ret.status = "ok" /\ call.conversion /\ call.mask /\ OneMasked
        /\ \A m \in 0..(Cardinality(Enabled) - 1) :
               Cardinality({k \in Enabled : _module_map[k] = m}) = 1)
        => MaskedIsZero

\* the marked pixel of module 31 of the map [0, -1, 2, ..., 31] has no place in
\* the output of a call without geometry
MaskedPixelNowhere ==
    /\ ProcessCalled /\ ret.status = "ok" /\ call.conversion /\ call.mask
    /\ _mask # None /\ _mask.base.name = "ML" /\ ~_mask.edges /\ ~call.geometry
    /\ Len(_module_map) = 32 /\ _module_map[2] = -1 /\ _module_map[32] = 31
    /\ ret.value.shape = <<1, 31 * 512, 1024>>
    /\ ~MaskedIsZero

(* C10: in the normal mode, with the tables set, the kernel takes of the   *)
(* raw value r of an unmasked pixel the stage r div 2^14 and the magnitude *)
(* r mod 2^14 and writes (magnitude - pedestal[stage]) * (1 / gain[stage]) *)
(* as a 32-bit float, with the pixel's own entries of the tables the       *)
(* handler keeps for the normal mode; raw 320 with gain 10 and pedestal 5  *)
(* gives 31.5.                                                             *)
C10_KernelDecodes ==
    (ProcessCalled /\ ret.status = "ok" /\ call.conversion /\ ~call.mask /\ ~_highgain) =>
        \A f \in Frames, i \in ObservedBlockIds, q \in ProbePix :
            /\ InOut(f, HomeOf(i, q))
            /\ Out(f, HomeOf(i, q)) =
                   Decoded(ArrAt(call.images, <<f, i * 512 + q[1], q[2]>>),
                           i * 512 + q[1], q[2])

\* raw 320 with gain 10 and pedestal 5 came out as 31.5, 0xC000 as stage 3 with
\* magnitude 0 and 0xBFFF as stage 2 with magnitude 0x3FFF
C10_Witness ==
    /\ ProcessCalled /\ ret.status = "ok" /\ call.conversion /\ ~call.mask /\ ~_highgain
    /\ Len(_module_map) = 32
    /\ ArrAt(call.images, <<0, 0, 0>>) = 320
    /\ ArrAt(_gain, <<0, 0, 0>>) = 10 /\ ArrAt(_pedestal, <<0, 0, 0>>) = 5
    /\ Out(0, HomeOf(0, <<0, 0>>)) = <<63, -1>>
    /\ \E i \in ObservedBlockIds, q \in ProbePix :
          /\ ArrAt(call.images, <<0, i * 512 + q[1], q[2]>>) = 49152
          /\ Out(0, HomeOf(i, q)) =
                 Mul32(0 - ArrAt(_pedestal, <<2, i * 512 + q[1], q[2]>>),
                       Inv32(ArrAt(_gain, <<2, i * 512 + q[1], q[2]>>)))
    /\ \E i \in ObservedBlockIds, q \in ProbePix :
          /\ ArrAt(call.images, <<0, i * 512 + q[1], q[2]>>) = 49151
          /\ Out(0, HomeOf(i, q)) =
                 Mul32(16383 - ArrAt(_pedestal, <<2, i * 512 + q[1], q[2]>>),
                       Inv32(ArrAt(_gain, <<2, i * 512 + q[1], q[2]>>)))

(* C11: process(parallel=True) returns what process(parallel=False)        *)
(* returns for the same images, flags and handler, in whatever order the   *)
(* per-frame units of the parallel kernel run.                             *)
C11_ParallelEqualsSerial ==
    (ProcessCalled /\ call.parallel /\ ret.status # "running") =>
        ret = process(call.images, call.conversion, call.mask, call.gap_pixels,
                      call.geometry, FALSE)

\* a stack of two frames went through the parallel kernel with conversion and
\* mask, and the two frames of the output differ
C11_Witness ==
    /\ ProcessCalled /\ call.parallel /\ ret.status = "ok"
    /\ proc # Idle /\ proc.pc = "done"
    /\ call.conversion /\ call.mask
    /\ call.images.shape[1] > 1
    /\ Out(0, HomeOf(0, <<0, 0>>)) # Out(1, HomeOf(0, <<0, 0>>))

(* C12: for every detector and every module map the setter takes,          *)
(* get_shape_out(gap_pixels=False, geometry=False) is the raw shape of the *)
(* modules that are not disabled, and process takes images of exactly that *)
(* shape.                                                                  *)
C12_ShapeOutIsRawShape ==
    /\ get_shape_out(FALSE, FALSE) = <<512 * Cardinality(Enabled), 1024>>
    /\ ProcessCalled =>
           LET shape == call.images.shape
           IN  ret # ShapeError <=>
                   <<shape[Len(shape) - 1], shape[Len(shape)]>> = get_shape_out(FALSE, FALSE)

\* process took images of the shape get_shape_out gives, with one module disabled
C12_Witness ==
    /\ ProcessCalled /\ ret.status = "ok"
    /\ Len(_module_map) = 32 /\ Cardinality(Enabled) = 31
    /\ call.images.shape = <<1>> \o get_shape_out(FALSE, FALSE)
    /\ get_shape_out(FALSE, FALSE) = <<15872, 1024>>

\* every entry of the module map is -1
AllDisabled == Enabled = {}

(* C13, as claimed: with every entry of the module map -1,                 *)
(* get_shape_out(gap_pixels=False, geometry=False) is the nominal shape    *)
(* given by the length of the module map, not by the number of modules     *)
(* enabled.                                                                *)
C13_AllDisabledNominalShape ==
    AllDisabled => get_shape_out(FALSE, FALSE) = <<512 * Len(_module_map), 1024>>

(* C13, amended: with every entry of the module map -1,                    *)
(* get_shape_out(gap_pixels=False, geometry=False) is (0, 1024), the raw   *)
(* shape of no module: it follows the number of modules enabled, as for    *)
(* every other module map.                                                 *)
C13_AllDisabledEmptyShape ==
    AllDisabled => get_shape_out(FALSE, FALSE) = <<0, 1024>>

\* the module map of a detector of 32 modules was set to -1 throughout
C13_Witness ==
    /\ call.op = "module_map" /\ ret.status = "ok"
    /\ Len(_module_map) = 32 /\ AllDisabled
    /\ get_shape_out(FALSE, FALSE) = <<0, 1024>>

\* the largest origin of the modules of the detector, down and across
MaxOriginY ==
    LET ys == modules_orig[detector_name][1]
    IN  CHOOSE y \in {ys[k] : k \in DOMAIN ys} : \A k \in DOMAIN ys : ys[k] <= y

MaxOriginX ==
    LET xs == modules_orig[detector_name][2]
    IN  CHOOSE x \in {xs[k] : k \in DOMAIN xs} : \A k \in DOMAIN xs : xs[k] <= x

(* C14: for a detector that is not a stripsel and stacks its modules       *)
(* vertically, with n modules enabled, get_shape_out is                    *)
(* (max origin_y + 512 + 2, max origin_x + 1024 + 6) with geometry and     *)
(* gap_pixels, (max origin_y + 512, max origin_x + 1024) with geometry     *)
(* only, (n * (512 + 2), 1024 + 6) with gap_pixels only and (n * 512,      *)
(* 1024) with neither.                                                     *)
C14_ShapeOutFormulas ==
    LET n == Cardinality(Enabled)
    IN  /\ get_shape_out(TRUE, TRUE) = <<MaxOriginY + 512 + 2, MaxOriginX + 1024 + 6>>
        /\ get_shape_out(FALSE, TRUE) = <<MaxOriginY + 512, MaxOriginX + 1024>>
        /\ get_shape_out(TRUE, FALSE) = <<n * (512 + 2), 1024 + 6>>
        /\ get_shape_out(FALSE, FALSE) = <<n * 512, 1024>>

\* JF07T32V01 with one module disabled
C14_Witness ==
    /\ call.op = "module_map" /\ ret.status = "ok"
    /\ detector_name = JF07T32V01 /\ Cardinality(Enabled) = 31
    /\ get_shape_out(TRUE, TRUE) = <<4432, 4215>>
    /\ get_shape_out(FALSE, TRUE) = <<4430, 4209>>
    /\ get_shape_out(TRUE, FALSE) = <<15934, 1030>>
    /\ get_shape_out(FALSE, FALSE) = <<15872, 1024>>

(* C15: for every detector and every call of process that is not the       *)
(* identity fast path and returns, the output has one frame per input      *)
(* frame (it is one 2-D frame for a 2-D input), the height and width       *)
(* get_shape_out(gap_pixels, geometry) gives for the same flags, and the   *)
(* dtype float32 with conversion and the dtype of the input without.       *)
C15_OutputShapeAndDtype ==
    (ProcessCalled /\ ret.status = "ok" /\ SomeFlag) =>
        /\ ret.value.shape =
               (IF ndim(call.images) = 2 THEN <<>> ELSE <<call.images.shape[1]>>)
                   \o get_shape_out(call.gap_pixels, call.geometry)
        /\ ret.value.dtype = (IF call.conversion THEN "float32" ELSE call.images.dtype)

\* the mask get_pixel_mask returned is false at every sampled pixel of every
\* slot of the raw shape
ReturnedAllFalse ==
    /\ ret.status = "ok" /\ ret.value # None
    /\ ret.value.shape = <<512 * Cardinality(Enabled), 1024>>
    /\ \A m \in 0..(Cardinality(Enabled) - 1), q \in ProbePix :
           ArrAt(ret.value, <<m * 512 + q[1], q[2]>>) = FALSE

\* get_pixel_mask(gap_pixels=False, geometry=False) was called with an all-false
\* pixel mask assigned
RawMaskOfAllFalse ==
    /\ call.op = "get_pixel_mask" /\ ~call.gap_pixels /\ ~call.geometry
    /\ _pixel_mask # None /\ _pixel_mask.name = "M0"

(* C16, as claimed: with an all-false pixel mask assigned,                 *)
(* get_pixel_mask(gap_pixels=False, geometry=False) returns an all-false   *)
(* mask in raw coordinates.                                                *)
C16_AllFalseRoundTrip ==
    RawMaskOfAllFalse => ReturnedAllFalse

\* the same with mask_double_pixels false alone: a map that names a slot beyond
\* the input ends the call with an error, one that leaves a slot unnamed gives
\* what the memory held there
AllFalseRoundTripSinglePixels ==
    (RawMaskOfAllFalse /\ ~_mask_double_pixels) => ReturnedAllFalse

\* with mask_double_pixels false and a module map whose enabled entries name
\* each of the slots of the input once, the all-false mask comes back
AllFalseRoundTripWholeMaps ==
    (RawMaskOfAllFalse /\ ~_mask_double_pixels
        /\ \A m \in 0..(Cardinality(Enabled) - 1) :
               Cardinality({k \in Enabled : _module_map[k] = m}) = 1)
        => ReturnedAllFalse

\* get_pixel_mask raised for the all-false mask and the map [0, -1, 2, ..., 31]
AllFalseRaised ==
    /\ RawMaskOfAllFalse /\ ~_mask_double_pixels
    /\ Len(_module_map) = 32 /\ _module_map[2] = -1 /\ _module_map[32] = 31
    /\ ret.status = "ValueError"

\* a slot of the mask returned for the all-false mask and the map
\* [0, 1, 2, 2, 4, ..., 31] holds what the memory held
AllFalseJunk ==
    /\ RawMaskOfAllFalse /\ ~_mask_double_pixels /\ ret.status = "ok"
    /\ Len(_module_map) = 32 /\ _module_map[4] = 2
    /\ ~ReturnedAllFalse

\* process ran the kernel without tables, on the modules in their own slots
RawMode ==
    /\ ProcessCalled /\ ret.status = "ok" /\ SomeFlag /\ ~call.conversion
    /\ \A k \in DOMAIN _module_map : _module_map[k] = k - 1

(* C17, as claimed: when the kernel runs without calibration tables, the   *)
(* output of every unmasked pixel is the 14-bit magnitude of the raw       *)
(* value: the raw value with its top two bits cleared.                     *)
C17_RawModeMagnitude ==
    RawMode =>
        \A f \in Frames, i \in ObservedBlockIds, q \in ProbePix :
            (call.mask /\ MaskAt(_mask, i * 512 + q[1], q[2]))
            \/ (/\ InOut(f, HomeOf(i, q))
                /\ Out(f, HomeOf(i, q)) =
                       ArrAt(call.images, <<f, i * 512 + q[1], q[2]>>) % 16384)

(* C17, amended: when the kernel runs without calibration tables, the      *)
(* output of every pixel the mask in use does not mask is the raw 16-bit   *)
(* value itself, its top two bits included.                                *)
C17_RawModeWholeWord ==
    RawMode =>
        \A f \in Frames, i \in ObservedBlockIds, q \in ProbePix :
            (call.mask /\ MaskAt(_mask, i * 512 + q[1], q[2]))
            \/ (/\ InOut(f, HomeOf(i, q))
                /\ Out(f, HomeOf(i, q)) = ArrAt(call.images, <<f, i * 512 + q[1], q[2]>>))

\* a raw value of 0xC000 came out as it went in, in a call with mask, gaps and
\* geometry
C17_Witness ==
    /\ RawMode /\ call.mask /\ call.gap_pixels /\ call.geometry
    /\ \E f \in Frames, i \in ObservedBlockIds, q \in ProbePix :
          /\ ~MaskAt(_mask, i * 512 + q[1], q[2])
          /\ ArrAt(call.images, <<f, i * 512 + q[1], q[2]>>) = 49152
          /\ Out(f, HomeOf(i, q)) = 49152

\* the pixels of the detector the derived tables are compared at
TablePix ==
    {<<i * 512 + q[1], q[2]>> : i \in {0, detector_name.n_modules - 1}, q \in ProbePix}

\* the two views in all are the ones derived from the array stored (inverted when
\* inv), and there are none when nothing is stored
ViewsFollow(stored, all, inv) ==
    IF stored = None THEN all[FALSE] = None /\ all[TRUE] = None
    ELSE /\ all[FALSE] # None /\ all[TRUE] # None
         /\ Len(all[FALSE].planes) = 4 /\ Len(all[TRUE].planes) = 1
         /\ \A p \in TablePix :
               /\ \A k \in 0..3 :
                     ViewAt(all[FALSE], k, p[1], p[2]) =
                         LET v == ArrAt(stored, <<IF k = 3 THEN 2 ELSE k, p[1], p[2]>>)
                         IN  IF inv THEN Inv32(v) ELSE FromInt(v)
               /\ ViewAt(all[TRUE], 0, p[1], p[2]) =
                      LET v == ArrAt(stored, <<3, p[1], p[2]>>)
                      IN  IF inv THEN Inv32(v) ELSE FromInt(v)

(* C18: after every gain or pedestal assignment, of an array or of None,   *)
(* the normal view is 1/gain[k] (pedestal[k]) of the stored array for      *)
(* k = 0..2 with stage 3 equal to stage 2 and the highgain view is         *)
(* 1/gain[3] (pedestal[3]); no view of an array assigned before stays once *)
(* the stored array is replaced or cleared.                                *)
C18_ViewsFollowStored ==
    /\ ViewsFollow(_gain, _g_all, TRUE)
    /\ ViewsFollow(_pedestal, _p_all, FALSE)

\* r calibrated with the entries at (y, x) of plane k of the arrays assigned
WithPlane(k, r, y, x) ==
    Mul32((r % 16384) - ArrAt(_pedestal, <<k, y, x>>), Inv32(ArrAt(_gain, <<k, y, x>>)))

(* C19: in the normal mode a raw value with selector code 3 is calibrated  *)
(* to the output of the raw value with the same magnitude and selector     *)
(* code 2, which is made with the planes 2 of the gain and pedestal arrays *)
(* assigned; their planes 3 are not used.                                  *)
C19_Selector3AsSelector2 ==
    (ProcessCalled /\ ret.status = "ok" /\ call.conversion /\ ~call.mask /\ ~_highgain) =>
        \A f \in Frames, i \in ObservedBlockIds, q \in ProbePix :
            LET y == i * 512 + q[1]
                x == q[2]
                r == ArrAt(call.images, <<f, y, x>>)
            IN  r \div 16384 = 3 =>
                    /\ Out(f, HomeOf(i, q)) = Decoded(r - 16384, y, x)
                    /\ Out(f, HomeOf(i, q)) = WithPlane(2, r, y, x)

\* a raw 0xFFFF came out calibrated with the planes 2, which is not what the
\* planes 3 give
C19_Witness ==
    /\ ProcessCalled /\ ret.status = "ok" /\ call.conversion /\ ~call.mask /\ ~_highgain
    /\ \E f \in Frames, i \in ObservedBlockIds, q \in ProbePix :
          LET y == i * 512 + q[1]
              x == q[2]
          IN  /\ ArrAt(call.images, <<f, y, x>>) = 65535
              /\ Out(f, HomeOf(i, q)) = WithPlane(2, 65535, y, x)
              /\ Out(f, HomeOf(i, q)) # WithPlane(3, 65535, y, x)

(* C20: with highgain true at the call of process, every unmasked pixel is *)
(* calibrated as (raw mod 2^14 - pedestal[3]) * (1 / gain[3]) with the     *)
(* planes 3 of the arrays assigned, whatever its two selector bits; and    *)
(* highgain switches kernel and tables together: with highgain false the   *)
(* same handler calibrates by selector, with no table assigned anew.       *)
C20_HighgainPlane3 ==
    (ProcessCalled /\ ret.status = "ok" /\ call.conversion /\ ~call.mask) =>
        \A f \in Frames, i \in ObservedBlockIds, q \in ProbePix :
            LET y == i * 512 + q[1]
                x == q[2]
                r == ArrAt(call.images, <<f, y, x>>)
            IN  /\ InOut(f, HomeOf(i, q))
                /\ Out(f, HomeOf(i, q)) =
                       IF _highgain THEN WithPlane(3, r, y, x) ELSE Decoded(r, y, x)

\* with highgain true, a raw value of selector 0 and one of selector 3 both
\* came out calibrated with the planes 3, and the first not as its selector
\* would have it
C20_Witness ==
    /\ ProcessCalled /\ ret.status = "ok" /\ call.conversion /\ ~call.mask /\ _highgain
    /\ \E f \in Frames, i \in ObservedBlockIds, q1 \in ProbePix, q2 \in ProbePix :
          LET y1 == i * 512 + q1[1]
              y2 == i * 512 + q2[1]
              r1 == ArrAt(call.images, <<f, y1, q1[2]>>)
              r2 == ArrAt(call.images, <<f, y2, q2[2]>>)
          IN  /\ r1 \div 16384 = 0 /\ r2 \div 16384 = 3
              /\ Out(f, HomeOf(i, q1)) = WithPlane(3, r1, y1, q1[2])
              /\ Out(f, HomeOf(i, q1)) # Decoded(r1, y1, q1[2])
              /\ Out(f, HomeOf(i, q2)) = WithPlane(3, r2, y2, q2[2])

---------------------------------------------------------------------------
\* the offset the claim gives to the source pixel (y, x) of a module
GapOffset(y, x, gap_pixels) ==
    IF gap_pixels THEN <<y + 2 * (y \div 256), x + 2 * (x \div 256)>> ELSE <<y, x>>

\* the rows and columns of a block with gaps that lie between its chips
GapRows == {256, 257}

GapCols == {256, 257, 514, 515, 772, 773}

\* every module is read from its own slot
OwnSlots == \A k \in DOMAIN _module_map : _module_map[k] = k - 1

\* along each axis the kernel's offset is the claimed one, grows with the
\* source coordinate (so two source pixels never share a destination), stays
\* inside the block and, with gaps, off the rows and columns between the chips
OffsetsApart(gap_pixels) ==
    /\ \A y \in 0..511 :
          LET d == KernelDest(y, 0, gap_pixels)[1]
          IN  /\ d = GapOffset(y, 0, gap_pixels)[1]
              /\ d < (IF gap_pixels THEN 512 + 2 ELSE 512)
              /\ gap_pixels => d \notin GapRows
              /\ y > 0 => d > KernelDest(y - 1, 0, gap_pixels)[1]
    /\ \A x \in 0..1023 :
          LET d == KernelDest(0, x, gap_pixels)[2]
          IN  /\ d = GapOffset(0, x, gap_pixels)[2]
              /\ d < (IF gap_pixels THEN 1024 + 6 ELSE 1024)
              /\ gap_pixels => d \notin GapCols
              /\ x > 0 => d > KernelDest(0, x - 1, gap_pixels)[2]
    /\ \A q \in ProbePix :
          KernelDest(q[1], q[2], gap_pixels) =
              <<KernelDest(q[1], 0, gap_pixels)[1], KernelDest(0, q[2], gap_pixels)[2]>>

(* C21: with gap_pixels true the source pixel (y, x) of a module is written *)
(* at offset (y + 2 * (y div 256), x + 2 * (x div 256)) of the module's     *)
(* output block; distinct source pixels have distinct destinations, every   *)
(* destination lies inside the (512 + 2) by (1024 + 6) block, and the rows  *)
(* and columns between the chips are never written and stay zero; with      *)
(* gap_pixels false the offset is (y, x).                                   *)
C21_GapOffsets ==
    (ProcessCalled /\ ret.status = "ok" /\ SomeFlag /\ OwnSlots) =>
        /\ \A f \in Frames, i \in ObservedBlockIds, q \in ProbePix :
              LET at == HomeAt(i, GapOffset(q[1], q[2], call.gap_pixels))
              IN  InOut(f, at) /\ Out(f, at) = Calibrated(f, i, i, q)
        /\ call.gap_pixels =>
              \A f \in Frames, i \in ObservedBlockIds, g \in GapPix :
                  /\ g[1] \in GapRows \/ g[2] \in GapCols
                  /\ InOut(f, HomeAt(i, g))
                  /\ Out(f, HomeAt(i, g)) = (IF call.conversion THEN <<0, 0>> ELSE 0)
        /\ OffsetsApart(call.gap_pixels)

\* a call with gaps put the last pixel of a module at offset (513, 1029) of its
\* block, not zero, and left the crossing of the gaps at (257, 773) zero
C21_Witness ==
    /\ ProcessCalled /\ ret.status = "ok" /\ OwnSlots
    /\ call.gap_pixels /\ ~call.conversion /\ ~call.mask
    /\ \E f \in Frames, i \in ObservedBlockIds :
          /\ GapOffset(511, 1023, TRUE) = <<513, 1029>>
          /\ Out(f, HomeAt(i, <<513, 1029>>)) = Calibrated(f, i, i, <<511, 1023>>)
          /\ Out(f, HomeAt(i, <<513, 1029>>)) # 0
          /\ Out(f, HomeAt(i, <<257, 773>>)) = 0

---------------------------------------------------------------------------
(* JFDataHandler(detector_name) for the two legacy detectors and for the    *)
(* detectors of geometry.py, and _get_module_slice on the handler made, for *)
(* the arrays _process slices: the images, the tables and the mask.  The    *)
(* constructor takes a name only when modules_orig has it (lines 58-61),    *)
(* and detector_name has no setter.                                         *)

LegacyDetectors == {JF02T09V02, JF02T01V02}

\* the names the constructor is called with
ConstructorNames == modules_orig_keys \cup LegacyDetectors

\* the constructor has raised: there is no handler to call anything on
NoHandler == [pc |-> "no handler"]

\* a stack of images, a table of four stages and a two-dimensional mask
SliceData ==
    {Arr("I1", "uint16", <<1>> \o _shape_full),
     Arr("GA", "float32", <<4>> \o _shape_full),
     Arr("M1", "bool", _shape_full)}

\* the state after JFDataHandler(name)
InitLegacy ==
    \E name \in ConstructorNames :
        /\ call = [op |-> "__init__", detector_name |-> name]
        /\ calib = None
        /\ IF name \in modules_orig_keys
           THEN /\ detector_name = name
                /\ _gain_file = ""
                /\ _pedestal_file = ""
                /\ _gain = None
                /\ _pedestal = None
                /\ _pixel_mask = None
                /\ _highgain = FALSE
                /\ _g_all = [b \in BOOLEAN |-> None]
                /\ _p_all = [b \in BOOLEAN |-> None]
                /\ _module_map = arange(name.n_modules)
                /\ _mask_all = [b \in BOOLEAN |-> None]
                /\ _mask_double_pixels = FALSE
                /\ ret = Returned(None)
                /\ proc = Idle
           ELSE /\ detector_name = None
                /\ _gain_file = None
                /\ _pedestal_file = None
                /\ _gain = None
                /\ _pedestal = None
                /\ _pixel_mask = None
                /\ _highgain = None
                /\ _g_all = None
                /\ _p_all = None
                /\ _module_map = None
                /\ _mask_all = None
                /\ _mask_double_pixels = None
                /\ ret = Raised("KeyError", "Geometry for detector is not present.")
                /\ proc = NoHandler

GetModuleSlice ==
    /\ Running
    /\ \E data \in SliceData, m \in 0..(detector_name.n_modules - 1), geometry \in BOOLEAN :
        /\ call' = [op |-> "_get_module_slice", data |-> data, m |-> m,
                    geometry |-> geometry]
        /\ ret' = Returned(_get_module_slice(data.shape[Len(data.shape) - 1],
                                             data.shape[Len(data.shape)], m, geometry))
        /\ UNCHANGED <<handler, proc, calib>>

NextLegacy ==
    \/ SetHighgain
    \/ SetMaskDoublePixels
    \/ GetModuleSlice

SpecLegacy == InitLegacy /\ [][NextLegacy]_vars

SliceCalled == call.op = "_get_module_slice"

\* element (y, x) of the slice returned is element (511 - y, 1023 - x) of
\* module m of the data
SliceTurned ==
    /\ ret.value.size_y = 512 /\ ret.value.size_x = 1024
    /\ \A q \in ProbePix :
          SliceSrc(ret.value, q[1], q[2]) = <<call.m * 512 + 511 - q[1], 1023 - q[2]>>

(* C22: for JF02T09V02 and JF02T01V02 there is a handler, and the content  *)
(* of each of its modules (raw data, gain, pedestal and mask slices) is    *)
(* turned by 180 degrees before placement, whether geometry is true or     *)
(* false.                                                                  *)
C22_TurnedInEveryCombination ==
    /\ (call.op = "__init__" /\ call.detector_name \in LegacyDetectors) =>
           ret.status = "ok"
    /\ (SliceCalled /\ detector_name \in LegacyDetectors) => SliceTurned

---------------------------------------------------------------------------
(* _reshape_stripsel(res, image), for one image of the stack.  The image is *)
(* arbitrary: an element of res is told by the place <<yin, xin>> of the    *)
(* image it was copied from.                                                *)

\* where the first loop writes image[ind, yin, xin], with a column stride of 2
BulkTarget_stride2(yin, xin) ==
    LET ichip == xin \div 256
        xout == (ichip * 774) + (xin % 256) * 2 + (yin % 3)
        yout == yin \div 3
    IN  <<yout, xout>>

\* where the first loop writes image[ind, yin, xin]
BulkTarget(yin, xin) ==
    LET ichip == xin \div 256
        xout == (ichip * 774) + (xin % 256) * 3 + (yin % 3)
        yout == yin \div 3
    IN  <<yout, xout>>

\* the second loop starting three columns to the left
GapWritesOf_shifted(igap, yin) ==
    LET yout == (yin \div 6) * 2
        xinl == igap * 64 + 63
        xoutl == igap * 774 + 762 + (yin % 6)
        xinr == igap * 64 + 63 + 1
        xoutr == igap * 774 + 762 + 11 - (yin % 6)
        ord == (igap * 256 + yin) * 4
    IN  {[at |-> <<yout, xoutl>>, from |-> <<yin, xinl>>, ord |-> ord],
         [at |-> <<yout + 1, xoutl>>, from |-> <<yin, xinl>>, ord |-> ord + 1],
         [at |-> <<yout, xoutr>>, from |-> <<yin, xinr>>, ord |-> ord + 2],
         [at |-> <<yout + 1, xoutr>>, from |-> <<yin, xinr>>, ord |-> ord + 3]}

\* the four writes of the second loop for (igap, yin): the place written, the
\* place of the image read, and the rank of the write in the order of the loop
GapWritesOf(igap, yin) ==
    LET yout == (yin \div 6) * 2
        xinl == igap * 64 + 63
        xoutl == igap * 774 + 765 + (yin % 6)
        xinr == igap * 64 + 63 + 1
        xoutr == igap * 774 + 765 + 11 - (yin % 6)
        ord == (igap * 256 + yin) * 4
    IN  {[at |-> <<yout, xoutl>>, from |-> <<yin, xinl>>, ord |-> ord],
         [at |-> <<yout + 1, xoutl>>, from |-> <<yin, xinl>>, ord |-> ord + 1],
         [at |-> <<yout, xoutr>>, from |-> <<yin, xinr>>, ord |-> ord + 2],
         [at |-> <<yout + 1, xoutr>>, from |-> <<yin, xinr>>, ord |-> ord + 3]}

GapWrites == UNION {GapWritesOf(igap, yin) : igap \in 0..2, yin \in 0..255}

\* what res holds at the bulk target of (yin, xin) when _reshape_stripsel
\* returns: the first loop writes it from (yin, xin), the second loop may write
\* it again, and its last write stays
_reshape_stripsel(yin, xin) ==
    LET t == BulkTarget(yin, xin)
        W == {w \in GapWrites : w.at = t}
    IN  [at |-> t,
         holds |-> IF W = {} THEN <<yin, xin>>
                   ELSE (CHOOSE w \in W : \A v \in W : v.ord <= w.ord).from]

\* the columns of the image next to a chip border or read by the second loop
EdgeCols ==
    {0, 1, 62, 63, 64, 65, 126, 127, 128, 129, 190, 191, 192, 193,
     254, 255, 256, 257, 510, 511, 512, 513, 766, 767, 768, 769, 1022, 1023}

InitStripsel == Init /\ detector_name = JF03T01V01

\* one write of the first loop
ReshapeBulk ==
    /\ call.op = "__init__"
    /\ \E yin \in 0..255, xin \in 0..1023 :
        /\ call' = [op |-> "_reshape_stripsel", step |-> "bulk", yin |-> yin, xin |-> xin]
        /\ ret' = Returned(BulkTarget(yin, xin))
        /\ UNCHANGED <<handler, proc, calib>>

\* the writes of the second loop for one (igap, yin)
ReshapeGap ==
    /\ call.op = "__init__"
    /\ \E igap \in 0..2, yin \in 0..255 :
        /\ call' = [op |-> "_reshape_stripsel", step |-> "gap", igap |-> igap, yin |-> yin]
        /\ ret' = Returned(GapWritesOf(igap, yin))
        /\ UNCHANGED <<handler, proc, calib>>

\* both loops, seen at the bulk target of one place of the image
Reshape ==
    /\ call.op = "__init__"
    /\ \E yin \in 0..255, xin \in EdgeCols :
        /\ call' = [op |-> "_reshape_stripsel", step |-> "all", yin |-> yin, xin |-> xin]
        /\ ret' = Returned(_reshape_stripsel(yin, xin))
        /\ UNCHANGED <<handler, proc, calib>>

NextStripsel == ReshapeBulk \/ ReshapeGap \/ Reshape

SpecStripsel == InitStripsel /\ [][NextStripsel]_vars

ReshapeStep(step) == call.op = "_reshape_stripsel" /\ call.step = step

\* the place of the image a place <<yout, xout>> of the block is filled from by
\* the formula of the claim, if any
BulkSource(t) ==
    LET ichip == t[2] \div 774
        r == t[2] % 774
    IN  <<t[1] * 3 + (r % 3), ichip * 256 + r \div 3>>

InBlock(t) == t[1] \in 0..(STRIPSEL_SIZE_Y - 1) /\ t[2] \in 0..(STRIPSEL_SIZE_X - 1)

(* C23: the bulk formula (yin, xin) -> (yin div 3, (xin div 256) * 774 +    *)
(* (xin mod 256) * 3 + yin mod 3) over yin in 0..255 and xin in 0..1023 is  *)
(* injective and every target lies inside the block of 86 rows and 3090     *)
(* columns.  Injective: the source is computed back from the target, for    *)
(* every one of the 256 * 1024 sources.                                     *)
C23_BulkInjectiveInRange ==
    ReshapeStep("bulk") =>
        /\ ret.value = <<call.yin \div 3,
                         (call.xin \div 256) * 774 + (call.xin % 256) * 3 + (call.yin % 3)>>
        /\ InBlock(ret.value)
        /\ BulkSource(ret.value) = <<call.yin, call.xin>>

\* the place (254, 1023) of the image goes to the last column of the block
C23_Witness ==
    /\ ReshapeStep("bulk") /\ call.yin = 254 /\ call.xin = 1023
    /\ ret.value = <<84, 3089>>
    /\ BulkSource(ret.value) = <<254, 1023>>

\* the six columns between two chips of the block
InGapBand6(t) == t[2] % 774 \in 768..773 /\ t[2] \div 774 < 3

\* the columns the second loop writes: those six, the last three columns of the
\* chip to their left and the first three of the chip to their right
InGapBand12(t) == \E igap \in 0..2 : t[2] - igap * 774 \in 765..776

(* C24, as claimed: the second loop writes only inside the block of 86 by   *)
(* 3090 and never changes a place the bulk formula filled outside the three *)
(* six-column gap bands: after both loops every bulk target outside them    *)
(* holds the value of its bulk source.                                      *)
C24_GapKeepsBulk6 ==
    /\ ReshapeStep("gap") => \A w \in ret.value : InBlock(w.at)
    /\ (ReshapeStep("all") /\ ~InGapBand6(ret.value.at)) =>
           ret.value.holds = <<call.yin, call.xin>>

(* C24, amended: the second loop writes only inside the block of 86 by 3090 *)
(* and never changes a place the bulk formula filled outside the three      *)
(* bands of the columns 765 + 774 * igap to 776 + 774 * igap, igap = 0..2:  *)
(* after both loops every bulk target outside them holds the value of its   *)
(* bulk source.                                                             *)
C24_GapKeepsBulk12 ==
    /\ ReshapeStep("gap") =>
           \A w \in ret.value : InBlock(w.at) /\ InGapBand12(w.at)
    /\ (ReshapeStep("all") /\ ~InGapBand12(ret.value.at)) =>
           ret.value.holds = <<call.yin, call.xin>>

\* the bulk target (0, 764) of (2, 254) holds its source after both loops,
\* while its neighbour (0, 765) was written by the second loop
C24_Witness ==
    /\ ReshapeStep("all") /\ call.yin = 2 /\ call.xin = 254
    /\ ret.value.at = <<0, 764>> /\ ~InGapBand12(ret.value.at)
    /\ ret.value.holds = <<2, 254>>
    /\ \E w \in GapWrites : w.at = <<0, 765>> /\ w.from # BulkSource(<<0, 765>>)

---------------------------------------------------------------------------
\* (y, x) of the full raw frame lies on the first or last row or column of a
\* chip of 256 by 256
ChipBorder(y, x) == y % 256 \in {0, 255} \/ x % 256 \in {0, 255}

\* the pixels the views are looked at: the probe pixels of the first, the third
\* and the last module, and one full row and one full column of the first and
\* the last module
MaskProbes ==
    LET n == detector_name.n_modules
        mods == {0, n - 1} \cup (IF n > 2 THEN {2} ELSE {})
    IN  {<<m * 512 + q[1], q[2]>> : m \in mods, q \in ProbePix}
            \cup {<<m * 512 + y, 300>> : m \in {0, n - 1}, y \in 0..511}
            \cup {<<m * 512 + 100, x>> : m \in {0, n - 1}, x \in 0..1023}

(* C25: once a pixel mask is assigned, the plain view is the assigned mask *)
(* as booleans, the double-pixel view is true on the first and last row    *)
(* and column of every chip of every nominal module, whatever the module   *)
(* map, and equal to the plain view elsewhere; the array assigned is kept  *)
(* as it was given, and mask_double_pixels only selects one of the two     *)
(* views.                                                                  *)
C25_MaskViews ==
    _pixel_mask # None =>
        /\ _mask_all[FALSE] # None /\ _mask_all[TRUE] # None
        /\ \A p \in MaskProbes :
              LET plain == MaskAt(_mask_all[FALSE], p[1], p[2])
                  double == MaskAt(_mask_all[TRUE], p[1], p[2])
                  given == ArrAt(_pixel_mask, <<p[1], p[2]>>)
              IN  /\ plain = (given # 0)
                  /\ double = (ChipBorder(p[1], p[2]) \/ plain)
        /\ _mask = (IF _mask_double_pixels THEN _mask_all[TRUE] ELSE _mask_all[FALSE])
        /\ (call.op = "pixel_mask" /\ ret.status = "ok") => _pixel_mask = call.value

\* the mask M1 was assigned on a detector whose second module is disabled: in
\* that module the border pixel (512, 300) is set in the double-pixel view and
\* not in the plain one, and the inner pixel (612, 300) in neither
C25_Witness ==
    /\ call.op = "pixel_mask" /\ ret.status = "ok" /\ call.value # None
    /\ call.value.name = "M1" /\ _pixel_mask = call.value
    /\ Len(_module_map) = 32 /\ _module_map[2] = -1
    /\ MaskAt(_mask_all[TRUE], 512, 300) /\ ~MaskAt(_mask_all[FALSE], 512, 300)
    /\ ~MaskAt(_mask_all[TRUE], 612, 300) /\ ~MaskAt(_mask_all[FALSE], 612, 300)
    /\ MaskAt(_mask_all[FALSE], MaskPix("M1", 32)[1], MaskPix("M1", 32)[2])

---------------------------------------------------------------------------
(* gain_file and pedestal_file, with files that hold arrays of the shape   *)
(* of the detector and files that hold arrays one module too tall: the     *)
(* tables of gains_tall.h5 and pedestal_tall.h5, the pixel mask of         *)
(* pedestal_mask_tall.h5.                                                  *)

GainFilePaths == {"", "gains.h5", "gains_tall.h5"}

PedestalFilePaths == {"", "pedestal.h5", "pedestal_tall.h5", "pedestal_mask_tall.h5"}

LoadGainFile ==
    \E filepath \in GainFilePaths :
        Running /\ gain_file_setter(filepath) /\ UNCHANGED <<proc, calib>>

LoadPedestalFile ==
    \E filepath \in PedestalFilePaths :
        Running /\ pedestal_file_setter(filepath) /\ UNCHANGED <<proc, calib>>

NextFiles == LoadGainFile \/ LoadPedestalFile \/ SetHighgain

SpecFiles == Init /\ [][NextFiles]_vars

\* the call c assigned a file and raised r
FileRaised(c, r) == c.op \in {"gain_file", "pedestal_file"} /\ r.status # "ok"

(* C26: a gain_file or pedestal_file assignment that raises leaves the     *)
(* recorded file path, the stored gain, pedestal and pixel mask and all    *)
(* derived views as they were, so that the same path assigned again is     *)
(* loaded again and not skipped as already loaded.                         *)
C26_FailedLoadLeavesHandler ==
    [][FileRaised(call', ret') => handler' = handler]_vars

---------------------------------------------------------------------------
\* the pass for entry k of the module map reads a whole module of 512 by 1024
\* that lies inside the images of the call
SourceWhole(k) ==
    LET shape == call.images.shape
        H == shape[Len(shape) - 1]
        sl == ModuleOf(call.images, k - 1, call.geometry)
    IN  /\ sl.size_y = 512 /\ sl.size_x = 1024
        /\ sl.oy + 512 <= H

\* the block that pass writes lies inside the buffer process made for the call
BlockInside(k) ==
    LET o == OriginOf(k - 1, call.geometry, call.gap_pixels)
        shape == get_shape_out(call.gap_pixels, call.geometry)
        h == IF call.gap_pixels THEN 512 + 2 ELSE 512
        w == IF call.gap_pixels THEN 1024 + 6 ELSE 1024
    IN  o[1] + h <= shape[1] /\ o[2] + w <= shape[2]

(* C27: for every module map the setter accepts and every combination of   *)
(* the flags, each enabled entry's source slice is a whole module of 512   *)
(* by 1024 inside the raw input frame and its destination block lies       *)
(* inside the output buffer: no enabled module is cut short or left out.   *)
C27_EnabledModulesWhole ==
    (ProcessCalled /\ ret.status = "ok" /\ SomeFlag) =>
        \A k \in Enabled : SourceWhole(k) /\ BlockInside(k)

\* the same for the module maps whose enabled entries name the slots 0, 1, ...
\* of the input, each once
CompactMapsWhole ==
    (ProcessCalled /\ ret.status = "ok" /\ SomeFlag
        /\ \A k \in Enabled : _module_map[k] < Cardinality(Enabled)) =>
        \A k \in Enabled : SourceWhole(k) /\ BlockInside(k)

---------------------------------------------------------------------------
PixelMaskReturned ==
    /\ call.op = "get_pixel_mask" /\ ret.status = "ok" /\ ret.value # None
    /\ call.gap_pixels \/ call.geometry

\* the place of the buffer of process that the place p of the output shows
Unplaced(p) ==
    IF call.geometry /\ detector_name.id = 6
    THEN <<p[2], get_shape_out(call.gap_pixels, TRUE)[2] - 1 - p[1]>>
    ELSE p

\* the offset of the place b inside the block the pass for entry i writes
OffsetIn(i, b) ==
    LET o == OriginOf(i, call.geometry, call.gap_pixels)
    IN  <<b[1] - o[1], b[2] - o[2]>>

\* the pass for entry i puts a pixel of its module at the place b
PutsPixel(i, b) ==
    LET r == OffsetIn(i, b)
    IN  IF call.gap_pixels
        THEN /\ r[1] \in 0..513 /\ r[2] \in 0..1029
             /\ r[1] \notin GapRows /\ r[2] \notin GapCols
        ELSE r[1] \in 0..511 /\ r[2] \in 0..1023

\* the pixel of the module it puts there
PixelPut(i, b) ==
    LET r == OffsetIn(i, b)
    IN  IF call.gap_pixels
        THEN <<r[1] - 2 * (r[1] \div 258), r[2] - 2 * (r[2] \div 258)>>
        ELSE r

\* every observed place of the mask returned that shows no pixel of an enabled
\* module is true, and every other has the value the mask in use has for the
\* pixel that process puts there (of the last entry, if several write there)
MaskShowsPixels ==
    \A d \in DOMAIN ret.value.data :
        LET b == Unplaced(<<d[2], d[3]>>)
            S == {i \in 0..(Len(_module_map) - 1) :
                     _module_map[i + 1] # -1 /\ PutsPixel(i, b)}
        IN  IF S = {} THEN ret.value.data[d] = TRUE
            ELSE LET i == SetMax(S)
                     q == PixelPut(i, b)
                 IN  ret.value.data[d] = MaskAt(_mask, i * 512 + q[1], q[2])

(* C28, as claimed: in the mask get_pixel_mask returns with gap_pixels or   *)
(* geometry true, every output pixel at which no pixel of an enabled module *)
(* is placed (the gaps between chips, the space between modules, the blocks *)
(* of disabled modules) is true, and every other output pixel has the mask  *)
(* value of the detector pixel placed there.                                *)
C28_MaskOfPlacedPixels ==
    PixelMaskReturned => MaskShowsPixels

(* C28, amended: the same, for a module map in which no two entries name    *)
(* the same slot.                                                           *)
C28_MaskOfPlacedPixelsNoSlotTwice ==
    (PixelMaskReturned /\ NoSlotTwice) => MaskShowsPixels

\* JF07T32V01 with module 1 disabled, geometry and gaps: the corner between the
\* modules, a gap of module 0 and the block of module 1 are true, the marked
\* pixel of module 2 is true and its pixel (100, 300) is not
C28_Witness ==
    /\ PixelMaskReturned /\ NoSlotTwice /\ MaskShowsPixels
    /\ detector_name = JF07T32V01 /\ call.geometry /\ call.gap_pixels
    /\ ~_mask_double_pixels /\ _pixel_mask # None /\ _pixel_mask.name = "M1"
    /\ _module_map[2] = -1 /\ _module_map[3] = 1
    /\ Out(0, <<0, 0>>) = TRUE
    /\ Out(0, HomeAt(0, <<257, 773>>)) = TRUE
    /\ Out(0, HomeOf(1, <<100, 300>>)) = TRUE
    /\ Out(0, HomeOf(2, <<255, 255>>)) = TRUE
    /\ Out(0, HomeOf(2, <<100, 300>>)) = FALSE

---------------------------------------------------------------------------
(* corrections.py: apply_gain_pede_np and apply_gain_pede_numba.  Both work *)
(* pixel by pixel; they are run on an image of one pixel.  A table is       *)
(* [planes |-> <<v0, v1, v2, v3>>], the values of its planes at the pixel,  *)
(* small integers held as float32; a pixel mask is [data |-> 0 or 1].       *)

\* q + r / g scaled up by powers of two until q has 24 bits
RECURSIVE DivBits(_, _, _, _)
DivBits(q, r, g, k) ==
    IF q >= Pow2(23) THEN <<q, r, k>>
    ELSE DivBits(2 * q + (IF 2 * r >= g THEN 1 ELSE 0), (2 * r) % g, g, k + 1)

\* np.float32(n) / np.float32(g) for integers 0 <= n < 2^24 and 1 <= g < 2^24
DivAbs32(n, g) ==
    IF n = 0 THEN <<0, 0>>
    ELSE LET b == DivBits(n \div g, n % g, g, 0)
         IN  Norm(RoundEven(b[1], b[2], g), -b[3])

\* np.float32(n) / np.float32(g) for an integer n
Div32(n, g) == IF n < 0 THEN Neg32(DivAbs32(-n, g)) ELSE DivAbs32(n, g)

(* apply_gain_pede_np: g and p are the sums of the planes 0, 1, 2 with the  *)
(* entries of the other selectors filled with 0 (m1, m2, m3), the data of a *)
(* masked pixel is filled with 0, and res = (data - p) / g.                 *)
apply_gain_pede_np(image, G, P, pixel_mask) ==
    LET gain_mask == (image \div 16384) % 4
        data == image % 16384
        m1 == gain_mask # 0
        m2 == gain_mask # 1
        m3 == gain_mask < 2
        sum(T) == (IF m1 THEN 0 ELSE T.planes[1]) + (IF m2 THEN 0 ELSE T.planes[2])
                      + (IF m3 THEN 0 ELSE T.planes[3])
        g == IF G # None THEN sum(G) ELSE 1
        p == IF P # None THEN sum(P) ELSE 0
        filled == IF pixel_mask # None /\ pixel_mask.data # 0 THEN 0 ELSE data
    IN  Div32(filled - p, g)

\* the loop body of apply_gain_pede_corrections_numba for one pixel
apply_gain_pede_corrections_numba(image, G, P, pede_mask, gain_mask) ==
    IF pede_mask.data # 0 THEN <<0, 0>>
    ELSE LET gm == IF gain_mask = 3 THEN 2 ELSE gain_mask
         IN  Div32(image - P.planes[gm + 1], G.planes[gm + 1])

apply_gain_pede_numba(image, G, P, pixel_mask) ==
    LET gain_mask == (image \div 16384) % 4
        data == image % 16384
        ones == [planes |-> <<1, 1, 1>>]
        zeros3 == [planes |-> <<0, 0, 0>>]
    IN  apply_gain_pede_corrections_numba(data,
            IF G = None THEN ones ELSE G,
            IF P = None THEN zeros3 ELSE P,
            IF pixel_mask = None THEN [data |-> 0] ELSE pixel_mask,
            gain_mask)

\* the tables GA, GB and PA, PB at the pixel (0, 0)
PixelGains == {[planes |-> [k \in 1..4 |-> GainVal(nm, k - 1, 0, 0)]] : nm \in GainNames}

PixelPedestals ==
    {[planes |-> [k \in 1..4 |-> PedVal(nm, k - 1, 0, 0)]] : nm \in PedestalNames}

InitCorrections == Init /\ detector_name = JF03T01V01

\* both routines on the same arguments
ApplyGainPede ==
    /\ call.op = "__init__"
    /\ \E image \in {RawVals[k] : k \in DOMAIN RawVals},
          G \in {None} \cup PixelGains, P \in {None} \cup PixelPedestals,
          pixel_mask \in {None, [data |-> 0], [data |-> 1]} :
        /\ call' = [op |-> "apply_gain_pede", image |-> image, G |-> G, P |-> P,
                    pixel_mask |-> pixel_mask]
        /\ ret' = Returned([np |-> apply_gain_pede_np(image, G, P, pixel_mask),
                            numba |-> apply_gain_pede_numba(image, G, P, pixel_mask)])
        /\ UNCHANGED <<handler, proc, calib>>

NextCorrections == ApplyGainPede

SpecCorrections == InitCorrections /\ [][NextCorrections]_vars

(* C29: apply_gain_pede_np and apply_gain_pede_numba return the same value *)
(* at every pixel for every raw 16-bit value, gain table, pedestal table   *)
(* and pixel mask, masked pixels and the selector codes 2 and 3 included.  *)
C29_NumpyEqualsNumba ==
    call.op = "apply_gain_pede" => ret.value.np = ret.value.numba

\* the two routines agree on every pixel that is not masked
UnmaskedAgree ==
    (call.op = "apply_gain_pede"
        /\ (call.pixel_mask = None \/ call.pixel_mask.data = 0)) =>
        ret.value.np = ret.value.numba

---------------------------------------------------------------------------
(* corrections.JungfrauCalibration.  The object is                          *)
(* [shape, _G, _P, _highgain, _GP]; _GP, of shape (H, 2 * num_gains * W),   *)
(* is held as its eight slots: slot s is _GP[:, s::8], an array of shape    *)
(* (H, W), told by the array and the plane it was copied from.              *)

num_gains == 4

\* _GP[:, s::num_gains * 2] = value[i]
SetSlot(GP, s, value, i) == [GP EXCEPT ![s] = [base |-> value, plane |-> i]]

\* the element (y, x) of slot s
SlotAt(GP, s, y, x) == ArrAt(GP[s].base, <<GP[s].plane, y, x>>)

RECURSIVE FillSlots(_, _, _, _)
\* for i in range(num_gains): _GP[:, (2 * i + odd)::num_gains * 2] = value[i]
FillSlots(GP, value, odd, i) ==
    IF i = num_gains THEN GP
    ELSE FillSlots(SetSlot(GP, 2 * i + odd, value, i), value, odd, i + 1)

G_raises(self, value) ==
    IF ndim(value) # 3 THEN Raised("ValueError", "G dimensions")
    ELSE IF value.shape[1] # 4 THEN Raised("ValueError", "G first dimension")
    ELSE IF self.shape # Tail(value.shape) THEN Raised("ValueError", "G shape")
    ELSE None

\* the G setter
G_setter(self, value) ==
    IF G_raises(self, value) # None THEN self
    ELSE [self EXCEPT !._G = value, !._GP = FillSlots(self._GP, value, 0, 0)]

P_raises(self, value) ==
    IF ndim(value) # 3 THEN Raised("ValueError", "P dimensions")
    ELSE IF value.shape[1] # 4 THEN Raised("ValueError", "P first dimension")
    ELSE IF self.shape # Tail(value.shape) THEN Raised("ValueError", "P shape")
    ELSE None

\* the P setter
P_setter(self, value) ==
    IF P_raises(self, value) # None THEN self
    ELSE [self EXCEPT !._P = value, !._GP = FillSlots(self._GP, value, 1, 0)]

\* the highgain setter
calib_highgain_setter(self, value) ==
    [self EXCEPT !._highgain = value,
                 !._GP = SetSlot(self._GP, 0, self._G, IF value THEN 3 ELSE 0)]

\* JungfrauCalibration(G, P, highgain=highgain) for G and P of one shape, four
\* planes and three dimensions; np.empty leaves _GP unset until the setters fill it
JungfrauCalibration(G, P, highgain) ==
    LET G32 == astype(G, "float32")
        P32 == astype(P, "float32")
        new == [shape |-> Tail(G32.shape), _G |-> None, _P |-> None, _highgain |-> FALSE,
                _GP |-> [s \in 0..(2 * num_gains - 1) |-> None]]
    IN  calib_highgain_setter(P_setter(G_setter(new, G32), P32), highgain)

CalibGains == {Arr(nm, "float64", <<4>> \o _shape_full) : nm \in GainNames}

CalibPedestals == {Arr(nm, "float64", <<4>> \o _shape_full) : nm \in PedestalNames}

NewCalibration ==
    /\ calib = None
    /\ \E G \in CalibGains, P \in CalibPedestals, highgain \in BOOLEAN :
        /\ calib' = JungfrauCalibration(G, P, highgain)
        /\ call' = [op |-> "JungfrauCalibration", G |-> G, P |-> P, highgain |-> highgain]
        /\ ret' = Returned(None)
        /\ UNCHANGED <<handler, proc>>

CalibSetG ==
    /\ calib # None
    /\ \E value \in CalibGains \cup {Arr("GA", "float64", <<3>> \o _shape_full)} :
        /\ calib' = G_setter(calib, value)
        /\ call' = [op |-> "G", value |-> value]
        /\ ret' = IF G_raises(calib, value) = None THEN Returned(None)
                  ELSE G_raises(calib, value)
        /\ UNCHANGED <<handler, proc>>

CalibSetP ==
    /\ calib # None
    /\ \E value \in CalibPedestals \cup {Arr("PA", "float64", <<3>> \o _shape_full)} :
        /\ calib' = P_setter(calib, value)
        /\ call' = [op |-> "P", value |-> value]
        /\ ret' = IF P_raises(calib, value) = None THEN Returned(None)
                  ELSE P_raises(calib, value)
        /\ UNCHANGED <<handler, proc>>

CalibSetHighgain ==
    /\ calib # None
    /\ \E value \in BOOLEAN :
        /\ calib' = calib_highgain_setter(calib, value)
        /\ call' = [op |-> "highgain", value |-> value]
        /\ ret' = Returned(None)
        /\ UNCHANGED <<handler, proc>>

NextCalibration == NewCalibration \/ CalibSetG \/ CalibSetP \/ CalibSetHighgain

SpecCalibration == InitCorrections /\ [][NextCalibration]_vars

\* slot 2 * i of _GP holds plane k of _G and slot 2 * i + 1 plane k of _P
StageHolds(i, k) ==
    \A q \in ProbePix :
        /\ SlotAt(calib._GP, 2 * i, q[1], q[2]) = ArrAt(calib._G, <<k, q[1], q[2]>>)
        /\ SlotAt(calib._GP, 2 * i + 1, q[1], q[2]) = ArrAt(calib._P, <<k, q[1], q[2]>>)

(* C30: after any sequence of G, P and highgain assignments on a           *)
(* JungfrauCalibration, the slots of stage 0 of its packed table hold the  *)
(* gain and pedestal of plane 3 when highgain is true and of plane 0 when  *)
(* it is false, and the slots of the stages 1 to 3 those of their planes.  *)
C30_PackedTableFollows ==
    calib # None =>
        /\ StageHolds(0, IF calib._highgain THEN 3 ELSE 0)
        /\ \A i \in 1..3 : StageHolds(i, i)

\* the same with highgain false
PackedTableNormal ==
    (calib # None /\ ~calib._highgain) =>
        /\ StageHolds(0, 0)
        /\ \A i \in 1..3 : StageHolds(i, i)

====
